---- MODULE Spec2Model ----
(***************************************************************************)
(* Model of the boot-environment lifecycle engine of libbe (be_create.c):  *)
(* be_init, be_copy and be_destroy over a ZFS-like namespace of datasets,  *)
(* snapshots and clones.                                                   *)
(*                                                                         *)
(* A dataset name is the sequence of its path components                   *)
(* ("rpool/ROOT/be1/var" is <<"rpool","ROOT","be1","var">>); a snapshot is *)
(* the pair <<dataset, snapshot name>>.  Each public function is one       *)
(* action; the calls it makes into the storage library are operators on a  *)
(* threaded state record st, and the outcomes the storage library may      *)
(* give (a call that fails) are an input F of the action, the set of fault *)
(* points [call, rel] at which a library call fails.                       *)
(***************************************************************************)
EXTENDS Integers, Sequences, FiniteSets, TLC

VARIABLES
    datasets,   \* dataset name -> [props, origin, mounted]
    snaps,      \* set of <<dataset name, snapshot name>>
    grub,       \* BE names that have a boot-menu entry
    vfstab,     \* BE names whose vfstab has been updated
    g_zfs,      \* the library-wide libzfs handle is initialised
    last,       \* the last public call: attributes, return value, trace
    nops,       \* number of public calls made so far
    nfaults     \* number of library calls that have failed so far

vars == <<datasets, snaps, grub, vfstab, g_zfs, last, nops, nfaults>>

-----------------------------------------------------------------------------
(* Bounds of the model *)

MaxOps == 2          \* public calls and mounts in one behaviour
MaxFaults == 1       \* library calls that fail in one behaviour

(* The world the library runs in *)

PoolOrder == <<"rpool", "tank">>          \* order in which zpool_iter visits
Pools == {PoolOrder[i] : i \in 1..Len(PoolOrder)}
NULL == "<null>"                          \* an attribute that is not passed
BENames == {"be1", "be2", "be3"}          \* valid names a caller passes
BadName == "b@d"                          \* a name be_valid_be_name rejects
AutoNames == <<"auto-1", "auto-2", "auto-3", "auto-4", "auto-5", "auto-6",
              "auto-7">>
SnapAutoNames == <<"snap-1", "snap-2", "snap-3">>
CompOrder == <<"be1", "be2", "be3", "auto-1", "auto-2", "auto-3", "auto-4",
               "auto-5", "auto-6", "auto-7", "var", "log">>             \* order of zfs_iter_filesystems

Slash == <<>>                             \* the file system "/"
Var == <<"var">>                          \* "/var"
VarLog == <<"var", "log">>                \* "/var/log"

NoOrigin == <<>>
NotMounted == ""
NORETURN == 99                            \* the call never returns
ZFS_MOUNTPOINT_LEGACY == "legacy"
BE_ERR_EXISTS == 2
BE_AUTO_NAME_MAX_TRY == 3
BE_CONTAINER_DS_NAME == "ROOT"
BE_POLICY_PROPERTY == "org.opensolaris.libbe:policy"

-----------------------------------------------------------------------------
(* Naming utilities *)

RECURSIVE PathStr(_)
PathStr(p) == IF p = <<>> THEN "" ELSE "/" \o Head(p) \o PathStr(Tail(p))

\* The string of a file system path: "/" for the root, "/var/log" otherwise.
FsName(p) == IF p = <<>> THEN "/" ELSE PathStr(p)

be_make_container_ds(zpool) == <<zpool, BE_CONTAINER_DS_NAME>>

be_make_root_ds(zpool, be_name) == <<zpool, BE_CONTAINER_DS_NAME, be_name>>

be_valid_be_name(name) == name # BadName /\ name # NULL

IsPrefix(p, d) == Len(p) <= Len(d) /\ SubSeq(d, 1, Len(p)) = p

\* zhp_name + strlen(root): the name relative to the root
RelName(d, root) == SubSeq(d, Len(root) + 1, Len(d))

\* The datasets at or below root in the namespace ds
Subtree(ds, root) == {d \in DOMAIN ds : IsPrefix(root, d)}

RelPaths(ds, root) == {RelName(d, root) : d \in Subtree(ds, root)}

Range(s) == {s[i] : i \in 1..Len(s)}

\* The name "<dataset>@<snapshot>" of a snapshot, as a call's target
SnapName(ss) == Append(ss[1], "@" \o ss[2])

-----------------------------------------------------------------------------
(* Attribute lists (nvlist with NV_UNIQUE_NAME: adding a name replaces it) *)

EmptyNvl == [x \in {} |-> ""]

nvlist_add_string(nvl, k, v) ==
    [x \in DOMAIN nvl \cup {k} |-> IF x = k THEN v ELSE nvl[x]]

nvlist_remove_all(nvl, k) == [x \in DOMAIN nvl \ {k} |-> nvl[x]]

-----------------------------------------------------------------------------
(* The storage library, as the calls of be_create.c use it.  st is the     *)
(* threaded state [ds, snaps, grub, vfstab, zfs, handles, log].  Every     *)
(* call is logged as [call, target, ok]; a call fails when the library     *)
(* refuses it or when it is a fault point of F.                            *)

Faulty(F, call, target) == [call |-> call, target |-> target] \in F

Ev(st, call, target, ok) ==
    [st EXCEPT !.log = Append(@, [call |-> call, target |-> target, ok |-> ok])]

\* The calls whose failure is an input of the model
Fallible == {"be_zfs_init", "zfs_create", "zfs_open", "zfs_clone", "zfs_snapshot",
             "be_create_snapshot", "zfs_prop_get", "zfs_prop_set", "pipe", "fork",
             "zfs_send", "killed", "zfs_receive", "waitpid", "zfs_unmount",
             "zfs_destroy", "zfs_destroy_snaps", "be_update_vfstab",
             "be_append_grub", "be_remove_grub", "nvlist_add_string"}

\* The fault points a run has passed
Points(log) ==
    {[call |-> log[i].call, target |-> log[i].target] :
        i \in {j \in 1..Len(log) : log[j].call \in Fallible}}

\* The fault sets of at most k points that change what Run does: each
\* further fault is at a call the run reaches under the faults before it.
EffFaults(Run(_), k) ==
    LET E[j \in 0..k] ==
            IF j = 0 THEN {{}}
            ELSE E[j - 1] \cup
                 UNION {{F \cup {f} : f \in Points(Run(F).st.log)} : F \in E[j - 1]}
    IN  E[k]

zfs_dataset_exists(st, name) == name \in DOMAIN st.ds

ParentExists(st, name) ==
    \/ Len(name) = 2 /\ name[1] \in Pools
    \/ Len(name) > 2 /\ SubSeq(name, 1, Len(name) - 1) \in DOMAIN st.ds

\* zfs_create succeeds when the library does not fail, the name is new and
\* its parent exists.
zfs_create_ok(st, F, name) ==
    /\ ~Faulty(F, "zfs_create", name)
    /\ name \notin DOMAIN st.ds
    /\ ParentExists(st, name)

NewDataset(props, origin) ==
    [props |-> props, origin |-> origin, mounted |-> NotMounted]

AddDataset(ds, name, rec) ==
    [d \in DOMAIN ds \cup {name} |-> IF d = name THEN rec ELSE ds[d]]

\* [ok, st]
zfs_create(st, F, name, props) ==
    IF zfs_create_ok(st, F, name)
    THEN [ok |-> TRUE,
          st |-> Ev([st EXCEPT !.ds = AddDataset(@, name, NewDataset(props, NoOrigin))],
                    "zfs_create", name, TRUE)]
    ELSE [ok |-> FALSE, st |-> Ev(st, "zfs_create", name, FALSE)]

\* zfs_open of a dataset or of a snapshot <<dataset, name>>: [ok, st]
zfs_open(st, F, name, exists) ==
    IF exists /\ ~Faulty(F, "zfs_open", name)
    THEN [ok |-> TRUE, st |-> Ev([st EXCEPT !.handles = @ + 1], "zfs_open", name, TRUE)]
    ELSE [ok |-> FALSE, st |-> Ev(st, "zfs_open", name, FALSE)]

zfs_close(st, name) ==
    Ev([st EXCEPT !.handles = @ - 1], "zfs_close", name, TRUE)

be_zfs_init(st) == Ev([st EXCEPT !.zfs = TRUE], "be_zfs_init", <<>>, TRUE)

be_zfs_fini(st) == Ev([st EXCEPT !.zfs = FALSE], "be_zfs_fini", <<>>, TRUE)

\* The children of a dataset, in the order zfs_iter_filesystems visits them
Children(ds, zhp) ==
    LET cs == SelectSeq(CompOrder, LAMBDA c : Append(zhp, c) \in DOMAIN ds)
    IN  [i \in 1..Len(cs) |-> Append(zhp, cs[i])]

-----------------------------------------------------------------------------
(* Locator *)

be_exists_callback(st, zpool, be_name) ==
    zfs_dataset_exists(st, be_make_root_ds(zpool, be_name))

\* zpool_iter(g_zfs, be_exists_callback, name) > 0
be_exists(st, be_name) ==
    \E zpool \in Pools : be_exists_callback(st, zpool, be_name)

\* A faulty locator that looks for the BE container instead of the BE root
be_find_zpool_callback_container(st, zpool, obe_name) ==
    zfs_dataset_exists(st, be_make_container_ds(zpool))

be_find_zpool_callback(st, zpool, obe_name) ==
    zfs_dataset_exists(st, be_make_root_ds(zpool, obe_name))

\* zpool_iter(g_zfs, be_find_zpool_callback, &bt): the first pool that
\* matches, in the order of iteration
be_find_zpool(st, obe_name) ==
    LET hits == SelectSeq(PoolOrder,
                    LAMBDA p : be_find_zpool_callback(st, p, obe_name))
    IN  IF hits = <<>> THEN [found |-> FALSE, zpool |-> NULL]
        ELSE [found |-> TRUE, zpool |-> Head(hits)]

-----------------------------------------------------------------------------
(* be_create_container_ds *)

\* A faulty property list that leaves canmount at its default
ContainerProps_no_canmount ==
    nvlist_add_string(EmptyNvl, "mountpoint", ZFS_MOUNTPOINT_LEGACY)

ContainerProps ==
    nvlist_add_string(
        nvlist_add_string(EmptyNvl, "mountpoint", ZFS_MOUNTPOINT_LEGACY),
        "canmount", "off")

\* [ok, st]
be_create_container_ds(st, F, zpool) ==
    LET c == be_make_container_ds(zpool) IN
    IF ~zfs_dataset_exists(st, c)
    THEN zfs_create(st, F, c, ContainerProps)
    ELSE [ok |-> TRUE, st |-> st]

-----------------------------------------------------------------------------
(* be_init *)

Ret(ret, err, st) == [ret |-> ret, err |-> err, st |-> st]

\* A faulty property list in which the caller's values win
RootProps_caller_wins(base) ==
    [x \in DOMAIN base \cup {"mountpoint", "canmount"} |->
        IF x \in DOMAIN base THEN base[x]
        ELSE IF x = "mountpoint" THEN ZFS_MOUNTPOINT_LEGACY ELSE "noauto"]

RootProps(base) ==
    nvlist_add_string(
        nvlist_add_string(base, "mountpoint", ZFS_MOUNTPOINT_LEGACY),
        "canmount", "noauto")

\* for (i = 0; i < fs_num && fs_names[i]; i++): the non-shared file systems.
\* "/" is skipped; every other entry is created below the root with its own
\* path as mountpoint, in the property list shared with the root.
RECURSIVE be_init_fs_loop(_, _, _, _, _, _)
be_init_fs_loop(st, F, fs_names, nbe_root_ds, props, i) ==
    IF i > Len(fs_names) THEN Ret(0, "none", st)
    ELSE IF fs_names[i] = Slash
    THEN be_init_fs_loop(st, F, fs_names, nbe_root_ds, props, i + 1)
    ELSE LET p1 == nvlist_add_string(props, "mountpoint", FsName(fs_names[i]))
             child_fs == nbe_root_ds \o fs_names[i]
             c == zfs_create(st, F, child_fs, p1)
         IN  IF ~c.ok THEN Ret(1, "create_child", c.st)
             ELSE be_init_fs_loop(c.st, F, fs_names, nbe_root_ds, p1, i + 1)

\* for (i = 0; i < shared_fs_num; i++): shared file systems live directly
\* below the pool and are created only when they do not exist yet.
RECURSIVE be_init_shared_loop(_, _, _, _, _)
be_init_shared_loop(st, F, shared_fs_names, zpool, i) ==
    IF i > Len(shared_fs_names) THEN Ret(0, "none", st)
    ELSE LET child_fs == <<zpool>> \o shared_fs_names[i]
             props == nvlist_add_string(EmptyNvl, "mountpoint",
                                        FsName(shared_fs_names[i]))
         IN  IF zfs_dataset_exists(st, child_fs)
             THEN be_init_shared_loop(st, F, shared_fs_names, zpool, i + 1)
             ELSE LET c == zfs_create(st, F, child_fs, props)
                  IN  IF ~c.ok THEN Ret(1, "create_shared", c.st)
                      ELSE be_init_shared_loop(c.st, F, shared_fs_names, zpool, i + 1)

\* A faulty be_init that does not look for the name
be_init_exists_never(st, nbe_name) == FALSE

\* The check "nbe_name doesn't already exist in some pool" of be_init
be_init_exists(st, nbe_name) == be_exists(st, nbe_name)

\* From "Generate string for BE's root dataset" to the label done
be_init_create(st, F, a) ==
    LET nbe_root_ds == be_make_root_ds(a.new_be_pool, a.new_be_name)
        props == RootProps(IF a.has_props THEN a.zfs_props ELSE EmptyNvl)
        c == zfs_create(st, F, nbe_root_ds, props)
    IN  IF ~c.ok THEN Ret(1, "create_root", c.st)
        ELSE LET r == be_init_fs_loop(c.st, F, a.fs_names, nbe_root_ds, props, 1)
             IN  IF r.ret # 0 THEN r
                 ELSE IF a.shared_fs_num > 0
                 THEN be_init_shared_loop(r.st, F, a.shared_fs_names,
                                          a.new_be_pool, 1)
                 ELSE r

be_init(st0, F, a) ==
    IF Faulty(F, "be_zfs_init", <<>>)
    THEN Ret(1, "zfs_init", Ev(st0, "be_zfs_init", <<>>, FALSE))
    ELSE LET st == be_zfs_init(st0) IN
    IF a.new_be_name = NULL THEN Ret(1, "lookup_name", st)
    ELSE IF ~be_valid_be_name(a.new_be_name) THEN Ret(1, "invalid_name", st)
    ELSE IF a.new_be_pool = NULL THEN Ret(1, "lookup_pool", st)
    ELSE IF ~a.has_fs THEN Ret(1, "lookup_fs", st)
    ELSE IF Len(a.fs_names) # a.fs_num THEN Ret(1, "fs_num", st)
    ELSE IF (IF a.has_shared THEN Len(a.shared_fs_names) ELSE 0) # a.shared_fs_num
    THEN Ret(1, "shared_fs_num", st)
    ELSE IF a.new_be_pool \notin Pools THEN Ret(1, "nopool", st)
    ELSE LET c == be_create_container_ds(st, F, a.new_be_pool) IN
    IF ~c.ok THEN Ret(1, "container", c.st)
    ELSE IF be_init_exists(c.st, a.new_be_name) THEN Ret(1, "exists", c.st)
    ELSE LET r == be_init_create(c.st, F, a)
         IN  Ret(r.ret, r.err, be_zfs_fini(r.st))

-----------------------------------------------------------------------------
(* Snapshots and clones of the storage library *)

\* zfs_snapshot(g_zfs, "<ds>@<name>", B_TRUE): one atomic recursive snapshot
\* of ds and every dataset below it; it fails when one of them has the name.
zfs_snapshot(st, F, ds, name) ==
    LET new == {<<d, name>> : d \in Subtree(st.ds, ds)}
    IN  IF ~Faulty(F, "zfs_snapshot", SnapName(<<ds, name>>)) /\ ds \in DOMAIN st.ds
           /\ new \cap st.snaps = {}
        THEN [ok |-> TRUE,
              st |-> Ev([st EXCEPT !.snaps = @ \cup new], "zfs_snapshot", SnapName(<<ds, name>>), TRUE)]
        ELSE [ok |-> FALSE, st |-> Ev(st, "zfs_snapshot", SnapName(<<ds, name>>), FALSE)]

\* zfs_clone(zhp_ss, clone_ds, props): [ok, exists, st]; exists is
\* libzfs_errno(g_zfs) == EZFS_EXISTS after a failure.
zfs_clone(st, F, ss, clone_ds, props) ==
    IF clone_ds \in DOMAIN st.ds
    THEN [ok |-> FALSE, exists |-> TRUE, st |-> Ev(st, "zfs_clone", clone_ds, FALSE)]
    ELSE IF Faulty(F, "zfs_clone", clone_ds) \/ ~ParentExists(st, clone_ds)
    THEN [ok |-> FALSE, exists |-> FALSE, st |-> Ev(st, "zfs_clone", clone_ds, FALSE)]
    ELSE [ok |-> TRUE, exists |-> FALSE,
          st |-> Ev([st EXCEPT !.ds = AddDataset(@, clone_ds, NewDataset(props, ss))],
                    "zfs_clone", clone_ds, TRUE)]

\* zfs_prop_get(zhp, ZFS_PROP_NUMCLONES, ...)
NumClones(ds, ss) == Cardinality({d \in DOMAIN ds : ds[d].origin = ss})

\* The source of the mountpoint property is ZPROP_SRC_LOCAL
MountpointIsLocal(st, zhp) == "mountpoint" \in DOMAIN st.ds[zhp].props

-----------------------------------------------------------------------------
(* be_clone_fs_callback *)

CbRet(ret, st, props) == [ret |-> ret, st |-> st, props |-> props]

\* A faulty be_clone_fs_callback that leaves the mountpoint of the shared
\* list as it is for a dataset whose mountpoint is inherited
be_clone_fs_props_leftover(st, F, zhp, child_fs, props) ==
    IF child_fs = <<>>
    THEN [ok |-> TRUE, st |-> st,
          props |-> nvlist_add_string(
                        nvlist_add_string(props, "mountpoint", ZFS_MOUNTPOINT_LEGACY),
                        "canmount", "noauto")]
    ELSE IF Faulty(F, "zfs_prop_get", zhp)
    THEN [ok |-> FALSE, st |-> Ev(st, "zfs_prop_get", zhp, FALSE), props |-> props]
    ELSE LET st1 == Ev(st, "zfs_prop_get", zhp, TRUE)
             p1 == IF MountpointIsLocal(st, zhp)
                   THEN nvlist_add_string(props, "mountpoint",
                                          st.ds[zhp].props["mountpoint"])
                   ELSE props
         IN  [ok |-> TRUE, st |-> st1,
              props |-> nvlist_add_string(p1, "canmount", "noauto")]

\* "Figure out what to set as the mountpoint for this dataset" and "Set the
\* 'canmount' property" of be_clone_fs_callback: [ok, st, props]
be_clone_fs_props(st, F, zhp, child_fs, props) ==
    IF child_fs = <<>>
    THEN [ok |-> TRUE, st |-> st,
          props |-> nvlist_add_string(
                        nvlist_add_string(props, "mountpoint", ZFS_MOUNTPOINT_LEGACY),
                        "canmount", "noauto")]
    ELSE IF Faulty(F, "zfs_prop_get", zhp)
    THEN [ok |-> FALSE, st |-> Ev(st, "zfs_prop_get", zhp, FALSE), props |-> props]
    ELSE LET st1 == Ev(st, "zfs_prop_get", zhp, TRUE)
             p1 == IF MountpointIsLocal(st, zhp)
                   THEN nvlist_add_string(props, "mountpoint",
                                          st.ds[zhp].props["mountpoint"])
                   ELSE nvlist_remove_all(props, "mountpoint")
         IN  [ok |-> TRUE, st |-> st1,
              props |-> nvlist_add_string(p1, "canmount", "noauto")]

\* A faulty be_clone_fs_callback that reports a failure below the dataset it
\* has just cloned as a name that exists already
be_clone_fs_children_result_exists(r) == IF r # 0 THEN BE_ERR_EXISTS ELSE 0

\* What be_clone_fs_callback returns after zfs_iter_filesystems has walked
\* the children with result r (the result of the walk is not looked at)
be_clone_fs_children_result(r) == 0

\* A faulty be_clone_fs_callback that clones every dataset from the snapshot
\* of the root of the original
be_clone_fs_snapshot_of_root(zhp, bt) == <<bt.obe_root_ds, bt.obe_snap_name>>

\* "Generate the name of the snapshot to use": <zhp_name>@<obe_snap_name>
be_clone_fs_snapshot(zhp, bt) == <<zhp, bt.obe_snap_name>>

RECURSIVE be_clone_fs_callback(_, _, _, _, _), be_clone_fs_iter(_, _, _, _, _, _)
be_clone_fs_callback(st, F, zhp, bt, props) ==
    IF ~IsPrefix(bt.obe_root_ds, zhp) THEN CbRet(1, st, props)
    ELSE
    LET child_fs == RelName(zhp, bt.obe_root_ds)
        clone_ds == bt.nbe_root_ds \o child_fs
        pp == be_clone_fs_props(st, F, zhp, child_fs, props)
    IN  IF ~pp.ok THEN CbRet(1, pp.st, pp.props)
        ELSE
        LET ss == be_clone_fs_snapshot(zhp, bt)
            o == zfs_open(pp.st, F, SnapName(ss), ss \in pp.st.snaps)
        IN  IF ~o.ok THEN CbRet(1, o.st, pp.props)
            ELSE
            LET c == zfs_clone(o.st, F, ss, clone_ds, pp.props)
            IN  IF ~c.ok
                THEN CbRet(IF c.exists THEN BE_ERR_EXISTS ELSE 1,
                           zfs_close(c.st, SnapName(ss)), pp.props)
                ELSE LET r == be_clone_fs_iter(zfs_close(c.st, SnapName(ss)), F,
                                               Children(c.st.ds, zhp), 1, bt, pp.props)
                     IN  CbRet(be_clone_fs_children_result(r.ret), r.st, r.props)

\* zfs_iter_filesystems(zhp, be_clone_fs_callback, bt): a handle is opened for
\* each child and passed to the callback; the walk stops at the first child
\* for which the callback returns non-zero, and returns that value.
be_clone_fs_iter(st, F, kids, i, bt, props) ==
    IF i > Len(kids) THEN CbRet(0, st, props)
    ELSE LET st1 == Ev([st EXCEPT !.handles = @ + 1], "iter_open", kids[i], TRUE)
             r == be_clone_fs_callback(st1, F, kids[i], bt, props)
         IN  IF r.ret # 0 THEN r
             ELSE be_clone_fs_iter(r.st, F, kids, i + 1, bt, r.props)

-----------------------------------------------------------------------------
(* be_send_fs_callback *)

\* The same property policy, as be_send_fs_callback writes it
be_send_fs_props(st, F, zhp, child_fs, props) ==
    IF child_fs = <<>>
    THEN [ok |-> TRUE, st |-> st,
          props |-> nvlist_add_string(
                        nvlist_add_string(props, "mountpoint", ZFS_MOUNTPOINT_LEGACY),
                        "canmount", "noauto")]
    ELSE IF Faulty(F, "zfs_prop_get", zhp)
    THEN [ok |-> FALSE, st |-> Ev(st, "zfs_prop_get", zhp, FALSE), props |-> props]
    ELSE LET st1 == Ev(st, "zfs_prop_get", zhp, TRUE)
             p1 == IF MountpointIsLocal(st, zhp)
                   THEN nvlist_add_string(props, "mountpoint",
                                          st.ds[zhp].props["mountpoint"])
                   ELSE nvlist_remove_all(props, "mountpoint")
         IN  [ok |-> TRUE, st |-> st1,
              props |-> nvlist_add_string(p1, "canmount", "noauto")]

\* The producer: the forked child sends <zhp>@<snap> into the pipe and exits.
\* It ends with exit status 1 when zfs_send fails, is killed by a signal
\* (fault point "killed"), or exits with status 0.  The result is the wait
\* status: [exited, code].
Producer(F, zhp) ==
    IF Faulty(F, "killed", zhp) THEN [exited |-> FALSE, code |-> 0]
    ELSE IF Faulty(F, "zfs_send", zhp) THEN [exited |-> TRUE, code |-> 1]
    ELSE [exited |-> TRUE, code |-> 0]

\* WEXITSTATUS(status): bits 8..15 of the status, 0 for a child that was
\* killed by a signal
WEXITSTATUS(status) == IF status.exited THEN status.code ELSE 0

\* A faulty wait that gives up when waitpid fails and lets the callback go on
be_send_fs_wait_once(st, F, zhp) ==
    [reaped |-> TRUE, st |-> Ev(st, "waitpid", zhp, ~Faulty(F, "waitpid", zhp))]

\* "wait for child to exit": do { retval = waitpid(pid, &status, 0); ... }
\* while (retval != pid).  The loop is left only when waitpid has returned
\* the child; when waitpid fails (fault point "waitpid": it keeps returning
\* -1) the loop never ends: [reaped, st]
be_send_fs_wait(st, F, zhp) ==
    IF Faulty(F, "waitpid", zhp)
    THEN [reaped |-> FALSE, st |-> Ev(st, "waitpid", zhp, FALSE)]
    ELSE [reaped |-> TRUE, st |-> Ev(st, "waitpid", zhp, TRUE)]

\* The test of the exit status once the loop is over, NORETURN when it is not
be_send_fs_status(w, status) ==
    IF ~w.reaped THEN [ret |-> NORETURN, st |-> w.st]
    ELSE IF WEXITSTATUS(status) # 0 THEN [ret |-> 1, st |-> w.st]
    ELSE [ret |-> 0, st |-> w.st]

\* From pipe() to the test of the exit status: [ret, st], ret 0 when the
\* callback goes on to the children.
be_send_fs_transfer(st, F, zhp, clone_ds, snap) ==
    IF Faulty(F, "pipe", zhp) THEN [ret |-> 1, st |-> Ev(st, "pipe", zhp, FALSE)]
    ELSE LET st1 == Ev(st, "pipe", zhp, TRUE) IN
    IF Faulty(F, "fork", zhp) THEN [ret |-> 1, st |-> Ev(st1, "fork", zhp, FALSE)]
    ELSE
    LET st2 == Ev(st1, "fork", zhp, TRUE)
        status == Producer(F, zhp)
        sent == status.exited /\ status.code = 0
        st3 == Ev(Ev(st2, "killed", zhp, ~status.exited), "zfs_send", zhp, sent)
        recv == sent /\ ~Faulty(F, "zfs_receive", clone_ds)
        st4 == Ev(IF recv THEN [st3 EXCEPT !.snaps = @ \cup {<<clone_ds, snap>>}]
                  ELSE st3, "zfs_receive", clone_ds, recv)
    IN  be_send_fs_status(be_send_fs_wait(st4, F, zhp), status)

RECURSIVE be_send_fs_callback(_, _, _, _, _), be_send_fs_iter(_, _, _, _, _, _)
be_send_fs_callback(st, F, zhp, bt, props) ==
    IF ~IsPrefix(bt.obe_root_ds, zhp) THEN CbRet(1, st, props)
    ELSE
    LET child_fs == RelName(zhp, bt.obe_root_ds)
        clone_ds == bt.nbe_root_ds \o child_fs
        pp == be_send_fs_props(st, F, zhp, child_fs, props)
    IN  IF ~pp.ok THEN CbRet(1, pp.st, pp.props)
        ELSE
        LET ss == <<zhp, bt.obe_snap_name>>
            o == zfs_open(pp.st, F, SnapName(ss), ss \in pp.st.snaps)
        IN  IF ~o.ok THEN CbRet(1, o.st, pp.props)
            ELSE
            LET c == zfs_create(o.st, F, clone_ds, pp.props)
            IN  IF ~c.ok THEN CbRet(1, zfs_close(c.st, SnapName(ss)), pp.props)
                ELSE
                LET t == be_send_fs_transfer(c.st, F, zhp, clone_ds, bt.obe_snap_name)
                IN  IF t.ret # 0 THEN CbRet(t.ret, t.st, pp.props)
                    ELSE
                    LET r == be_send_fs_iter(zfs_close(t.st, SnapName(ss)), F,
                                             Children(t.st.ds, zhp), 1, bt, pp.props)
                    IN  CbRet(IF r.ret = 0 THEN 0
                              ELSE IF r.ret = NORETURN THEN NORETURN ELSE 1,
                              r.st, r.props)

be_send_fs_iter(st, F, kids, i, bt, props) ==
    IF i > Len(kids) THEN CbRet(0, st, props)
    ELSE LET st1 == Ev([st EXCEPT !.handles = @ + 1], "iter_open", kids[i], TRUE)
             r == be_send_fs_callback(st1, F, kids[i], bt, props)
         IN  IF r.ret # 0 THEN r
             ELSE be_send_fs_iter(r.st, F, kids, i + 1, bt, r.props)

-----------------------------------------------------------------------------
(* Locating the BE that is mounted at the system root *)

\* be_zfs_find_current_be_callback: the dataset is mounted at "/"
be_zfs_find_current_be_callback(st, zhp) == st.ds[zhp].mounted = "/"

\* zfs_iter_filesystems(zhp, be_zfs_find_current_be_callback, bt):
\* [found, root, st]
RECURSIVE be_find_current_iter(_, _, _)
be_find_current_iter(st, kids, i) ==
    IF i > Len(kids) THEN [found |-> FALSE, root |-> <<>>, st |-> st]
    ELSE LET st1 == Ev([st EXCEPT !.handles = @ + 1], "iter_open", kids[i], TRUE)
         IN  IF be_zfs_find_current_be_callback(st1, kids[i])
             THEN [found |-> TRUE, root |-> kids[i], st |-> st1]
             ELSE be_find_current_iter(st1, kids, i + 1)

\* be_zpool_find_current_be_callback for one pool: [found, root, st]
be_zpool_find_current_be_callback(st, F, zpool) ==
    LET c == be_make_container_ds(zpool) IN
    IF ~zfs_dataset_exists(st, c) THEN [found |-> FALSE, root |-> <<>>, st |-> st]
    ELSE LET o == zfs_open(st, F, c, TRUE) IN
         IF ~o.ok THEN [found |-> FALSE, root |-> <<>>, st |-> o.st]
         ELSE LET r == be_find_current_iter(o.st, Children(o.st.ds, c), 1)
              IN  [found |-> r.found, root |-> r.root, st |-> zfs_close(r.st, c)]

\* zpool_iter(g_zfs, be_zpool_find_current_be_callback, &bt)
RECURSIVE be_find_current_be(_, _, _)
be_find_current_be(st, F, i) ==
    IF i > Len(PoolOrder)
    THEN [found |-> FALSE, root |-> <<>>, zpool |-> NULL, st |-> st]
    ELSE LET r == be_zpool_find_current_be_callback(st, F, PoolOrder[i])
         IN  IF r.found
             THEN [found |-> TRUE, root |-> r.root, zpool |-> PoolOrder[i], st |-> r.st]
             ELSE be_find_current_be(r.st, F, i + 1)

-----------------------------------------------------------------------------
(* Collaborators of be_copy *)

\* be_auto_be_name: the first candidate name that no pool has a BE of, or
\* NULL when it cannot generate one
be_auto_be_name(st) ==
    LET free == SelectSeq(AutoNames, LAMBDA n : ~be_exists(st, n))
    IN  IF free = <<>> THEN NULL ELSE Head(free)

\* _be_create_snapshot: a recursive snapshot of the BE under a generated
\* name: [ok, name, st]
be_create_snapshot(st, F, obe_root_ds) ==
    LET free == SelectSeq(SnapAutoNames, LAMBDA n : <<obe_root_ds, n>> \notin st.snaps)
    IN  IF free = <<>> THEN [ok |-> FALSE, name |-> NULL, st |-> st]
        ELSE LET z == zfs_snapshot(st, F, obe_root_ds, Head(free))
             IN  [ok |-> z.ok, name |-> Head(free), st |-> z.st]

be_default_policy == "static"

\* Another process creates the BE root dataset name before this one does
ExternalCreate(st, name) ==
    IF name \notin DOMAIN st.ds /\ ParentExists(st, name)
    THEN Ev([st EXCEPT !.ds = AddDataset(@, name, NewDataset(RootProps(EmptyNvl), NoOrigin))],
            "external_create", name, TRUE)
    ELSE st

-----------------------------------------------------------------------------
(* be_copy.  Each stage gives [ret, err, st, bt, done]: ret 0 to go on,    *)
(* otherwise the return value; done tells whether the failure leaves       *)
(* through the label done or by a plain return.                            *)

Stage(ret, err, st, bt, done) ==
    [ret |-> ret, err |-> err, st |-> st, bt |-> bt, done |-> done]

NoBt == [obe_name |-> NULL, obe_zpool |-> NULL, obe_root_ds |-> <<>>,
         obe_snap_name |-> NULL, nbe_name |-> NULL, nbe_zpool |-> NULL,
         nbe_root_ds |-> <<>>, nbe_zfs_props |-> EmptyNvl, policy |-> NULL,
         autoname |-> FALSE]

\* "Get original BE name" to "Find which zpool obe_name lives in"
be_copy_orig(st, F, a) ==
    LET cur == be_find_current_be(st, F, 1)
        st1 == IF a.orig_be_name = NULL THEN cur.st ELSE st
        obe_name == IF a.orig_be_name = NULL
                    THEN (IF cur.found THEN cur.root[Len(cur.root)] ELSE NULL)
                    ELSE a.orig_be_name
        z == be_find_zpool(st1, obe_name)
    IN  IF a.orig_be_name = NULL /\ ~cur.found
        THEN Stage(1, "no_current_be", st1, NoBt, FALSE)
        ELSE IF a.orig_be_name # NULL /\ ~be_valid_be_name(a.orig_be_name)
        THEN Stage(1, "invalid_name", st1, NoBt, FALSE)
        ELSE IF ~z.found THEN Stage(1, "no_zpool", st1, NoBt, FALSE)
        ELSE Stage(0, "none", st1,
                   [NoBt EXCEPT !.obe_name = obe_name, !.obe_zpool = z.zpool,
                                !.obe_snap_name = a.snap_name,
                                !.nbe_name = a.new_be_name,
                                !.nbe_zpool = a.new_be_pool,
                                !.policy = IF a.policy = NULL THEN be_default_policy
                                           ELSE a.policy,
                                !.nbe_zfs_props = IF a.has_props THEN a.zfs_props
                                                  ELSE EmptyNvl],
                   TRUE)

\* A faulty be_copy that looks for the name in no pool
be_copy_exists_never(st, nbe_name) == FALSE

\* The check "verify that new BE name doesn't already exist in some pool"
be_copy_exists(st, nbe_name) == be_exists(st, nbe_name)

\* A faulty be_copy that lets an auto named BE go to a pool the caller names
be_copy_auto_pool_given_never(bt) == FALSE

\* "cannot specify pool name when creating an auto named BE"
be_copy_auto_pool_given(bt) == bt.nbe_zpool # NULL

\* "If new BE name provided ..." to "Get root dataset names"
be_copy_new(st, bt) ==
    LET auto == be_auto_be_name(st)
        nbe_name == IF bt.nbe_name # NULL THEN bt.nbe_name ELSE auto
        nbe_zpool == IF bt.nbe_zpool = NULL THEN bt.obe_zpool ELSE bt.nbe_zpool
    IN  IF bt.nbe_name # NULL /\ ~be_valid_be_name(bt.nbe_name)
        THEN Stage(1, "invalid_name", st, bt, TRUE)
        ELSE IF bt.nbe_name # NULL /\ be_copy_exists(st, bt.nbe_name)
        THEN Stage(1, "exists", st, bt, TRUE)
        ELSE IF bt.nbe_name = NULL /\ be_copy_auto_pool_given(bt)
        THEN Stage(1, "auto_pool", st, bt, TRUE)
        ELSE IF bt.nbe_name = NULL /\ bt.obe_snap_name # NULL
        THEN Stage(1, "auto_snap", st, bt, TRUE)
        ELSE IF bt.nbe_name = NULL /\ auto = NULL
        THEN Stage(1, "auto_name", st, bt, TRUE)
        ELSE Stage(0, "none", st,
                   [bt EXCEPT !.autoname = (bt.nbe_name = NULL),
                              !.nbe_name = nbe_name,
                              !.nbe_zpool = nbe_zpool,
                              !.obe_root_ds = be_make_root_ds(bt.obe_zpool, bt.obe_name),
                              !.nbe_root_ds = be_make_root_ds(nbe_zpool, nbe_name)],
                   TRUE)

\* "If an existing snapshot name has been provided ..." to the end of the
\* else branch that takes the snapshot
\* nvlist_add_string(be_attrs, BE_ATTR_SNAP_NAME, bt.obe_snap_name) after the
\* auto named snapshot c has been made
be_copy_return_snap(c, F, bt) ==
    IF Faulty(F, "nvlist_add_string", <<"be_attrs", "BE_ATTR_SNAP_NAME">>)
    THEN Stage(1, "attr_snap_name",
               Ev(c.st, "nvlist_add_string", <<"be_attrs", "BE_ATTR_SNAP_NAME">>, FALSE),
               [bt EXCEPT !.obe_snap_name = c.name], TRUE)
    ELSE Stage(0, "none",
               Ev([c.st EXCEPT !.out.snap_name = c.name],
                  "nvlist_add_string", <<"be_attrs", "BE_ATTR_SNAP_NAME">>, TRUE),
               [bt EXCEPT !.obe_snap_name = c.name], TRUE)

\* A faulty be_copy that takes the caller's word for the snapshot
be_copy_snap_exists_always(st, ss) == TRUE

\* "Verify snapshot exists": zfs_dataset_exists(g_zfs, ss, ZFS_TYPE_SNAPSHOT)
\* for the snapshot of the root dataset of the original, and of no other
be_copy_snap_exists(st, ss) == ss \in st.snaps

be_copy_snap(st, F, bt) ==
    IF bt.obe_snap_name # NULL
    THEN IF ~be_copy_snap_exists(st, <<bt.obe_root_ds, bt.obe_snap_name>>)
         THEN Stage(1, "no_snapshot", st, bt, TRUE)
         ELSE Stage(0, "none", st, bt, TRUE)
    ELSE IF bt.autoname
    THEN LET c == be_create_snapshot(st, F, bt.obe_root_ds)
         IN  IF ~c.ok THEN Stage(1, "auto_snapshot", c.st, bt, TRUE)
             ELSE be_copy_return_snap(c, F, bt)
    ELSE LET z == zfs_snapshot(st, F, bt.obe_root_ds, bt.nbe_name)
         IN  IF ~z.ok THEN Stage(1, "snapshot", z.st, bt, TRUE)
             ELSE Stage(0, "none", z.st, [bt EXCEPT !.obe_snap_name = bt.nbe_name], TRUE)

\* zret = be_clone_fs_callback(zhp, &bt), zret = be_send_fs_callback(zhp, &bt):
\* the value r.ret the walk over the original's root gave back to be_copy is
\* kept, with the root of the new BE it was called for
Zret(r, bt) ==
    [r EXCEPT !.st.rets = Append(@, [root |-> bt.nbe_root_ds, ret |-> r.ret])]

\* A faulty loop bound that allows one more pass
be_copy_retry_limit_plus_one == BE_AUTO_NAME_MAX_TRY + 1

\* The number of the last pass of the retry loop, for (i = 1; i < ...; i++)
be_copy_retry_limit == BE_AUTO_NAME_MAX_TRY

\* for (i = 1; i < BE_AUTO_NAME_MAX_TRY; i++): a new name, a new attempt.
\* races is the number of attempts for which another process has taken the
\* candidate name before the clone is made.
RECURSIVE be_copy_retry(_, _, _, _, _), be_copy_retry_result(_, _, _, _, _)
be_copy_retry(st, F, bt, i, races) ==
    IF i >= be_copy_retry_limit
    THEN Stage(1, "no_unique_name", st, [bt EXCEPT !.nbe_name = NULL], TRUE)
    ELSE
    LET name == be_auto_be_name(st) IN
    IF name = NULL THEN Stage(1, "auto_name", st, [bt EXCEPT !.nbe_name = NULL], TRUE)
    ELSE
    LET bt1 == [bt EXCEPT !.nbe_name = name,
                          !.nbe_root_ds = be_make_root_ds(bt.nbe_zpool, name)]
    IN  be_copy_retry_result(
            Zret(be_clone_fs_callback(IF i + 1 <= races
                                      THEN ExternalCreate(st, bt1.nbe_root_ds) ELSE st,
                                      F, bt.obe_root_ds, bt1, bt1.nbe_zfs_props),
                 bt1),
            F, bt1, i, races)

\* A faulty be_copy that takes a snapshot under the name of the abandoned
\* candidate before it tries again
be_copy_retry_result_resnap(r, F, bt1, i, races) ==
    IF r.ret = 0 THEN Stage(0, "none", r.st, [bt1 EXCEPT !.nbe_zfs_props = r.props], TRUE)
    ELSE IF r.ret # BE_ERR_EXISTS
    THEN Stage(1, "clone", r.st, [bt1 EXCEPT !.nbe_zfs_props = r.props], TRUE)
    ELSE be_copy_retry(zfs_snapshot(r.st, F, bt1.obe_root_ds, bt1.nbe_name).st, F,
                       [bt1 EXCEPT !.nbe_zfs_props = r.props], i + 1, races)

\* The tests on the result of one pass of the loop
be_copy_retry_result(r, F, bt1, i, races) ==
    IF r.ret = 0 THEN Stage(0, "none", r.st, [bt1 EXCEPT !.nbe_zfs_props = r.props], TRUE)
    ELSE IF r.ret # BE_ERR_EXISTS
    THEN Stage(1, "clone", r.st, [bt1 EXCEPT !.nbe_zfs_props = r.props], TRUE)
    ELSE be_copy_retry(r.st, F, [bt1 EXCEPT !.nbe_zfs_props = r.props], i + 1, races)

\* ZFS_CLOSE(zhp) after a clone that succeeded
be_copy_clone_close(t, obe_root_ds) ==
    IF t.ret # 0 THEN t
    ELSE Stage(0, "none", zfs_close(t.st, obe_root_ds), t.bt, TRUE)

\* A faulty be_copy that tries again after BE_ERR_EXISTS whether or not the
\* name of the new BE was generated
be_copy_clone_result_retry_named(r, F, bt, races) ==
    IF r.ret = 0 THEN Stage(0, "none", r.st, [bt EXCEPT !.nbe_zfs_props = r.props], TRUE)
    ELSE IF r.ret # BE_ERR_EXISTS
    THEN Stage(1, "clone", r.st, [bt EXCEPT !.nbe_zfs_props = r.props], TRUE)
    ELSE be_copy_retry(r.st, F, [bt EXCEPT !.nbe_zfs_props = r.props], 1, races)

\* The tests on the result of the first clone attempt
be_copy_clone_result(r, F, bt, races) ==
    IF r.ret = 0 THEN Stage(0, "none", r.st, [bt EXCEPT !.nbe_zfs_props = r.props], TRUE)
    ELSE IF ~bt.autoname \/ r.ret # BE_ERR_EXISTS
    THEN Stage(1, "clone", r.st, [bt EXCEPT !.nbe_zfs_props = r.props], TRUE)
    ELSE be_copy_retry(r.st, F, [bt EXCEPT !.nbe_zfs_props = r.props], 1, races)

\* The branch "Do clone"
be_copy_clone(st, F, bt, races) ==
    LET o == zfs_open(st, F, bt.obe_root_ds, bt.obe_root_ds \in DOMAIN st.ds) IN
    IF ~o.ok THEN Stage(1, "open_root", o.st, bt, TRUE)
    ELSE be_copy_clone_close(
             be_copy_clone_result(
                 Zret(be_clone_fs_callback(IF 1 <= races
                                           THEN ExternalCreate(o.st, bt.nbe_root_ds)
                                           ELSE o.st,
                                           F, bt.obe_root_ds, bt, bt.nbe_zfs_props),
                      bt),
                 F, bt, races),
             bt.obe_root_ds)

\* A faulty be_copy that does not look at what be_send_fs_callback returns
be_copy_send_result_ignored(r, bt) ==
    IF r.ret = NORETURN
    THEN Stage(NORETURN, "hang", r.st, [bt EXCEPT !.nbe_zfs_props = r.props], FALSE)
    ELSE Stage(0, "none", zfs_close(r.st, bt.obe_root_ds),
               [bt EXCEPT !.nbe_zfs_props = r.props], TRUE)

\* The tests on the result of be_send_fs_callback
be_copy_send_result(r, bt) ==
    IF r.ret = NORETURN
    THEN Stage(NORETURN, "hang", r.st, [bt EXCEPT !.nbe_zfs_props = r.props], FALSE)
    ELSE IF r.ret # 0
    THEN Stage(1, "send", r.st, [bt EXCEPT !.nbe_zfs_props = r.props], TRUE)
    ELSE Stage(0, "none", zfs_close(r.st, bt.obe_root_ds),
               [bt EXCEPT !.nbe_zfs_props = r.props], TRUE)

\* zfs_open of the original root dataset and the walk over it
be_copy_send_open(o, F, bt, races) ==
    IF ~o.ok THEN Stage(1, "open_root", o.st, bt, TRUE)
    ELSE be_copy_send_result(
             Zret(be_send_fs_callback(IF 1 <= races
                                      THEN ExternalCreate(o.st, bt.nbe_root_ds) ELSE o.st,
                                      F, bt.obe_root_ds, bt, bt.nbe_zfs_props),
                  bt),
             bt)

\* The test on the result of be_create_container_ds
be_copy_send_container(c, F, bt, races) ==
    IF ~c.ok THEN Stage(1, "container", c.st, bt, TRUE)
    ELSE be_copy_send_open(
             zfs_open(c.st, F, bt.obe_root_ds, bt.obe_root_ds \in DOMAIN c.st.ds),
             F, bt, races)

\* The branch "Do copy (i.e. send BE datasets via zfs_send/recv)"
be_copy_send(st, F, bt, races) ==
    be_copy_send_container(be_create_container_ds(st, F, bt.nbe_zpool), F, bt, races)

\* From be_update_vfstab to the label done
\* "Return the auto generated name to the caller": a failure of
\* nvlist_add_string is printed and nothing else
be_copy_return_name(st, F, bt) ==
    IF bt.nbe_name = NULL THEN st
    ELSE IF Faulty(F, "nvlist_add_string", <<"be_attrs", "BE_ATTR_NEW_BE_NAME">>)
    THEN Ev(st, "nvlist_add_string", <<"be_attrs", "BE_ATTR_NEW_BE_NAME">>, FALSE)
    ELSE Ev([st EXCEPT !.out.new_be_name = bt.nbe_name],
            "nvlist_add_string", <<"be_attrs", "BE_ATTR_NEW_BE_NAME">>, TRUE)

be_copy_finish(st, F, bt) ==
    IF Faulty(F, "be_update_vfstab", bt.nbe_root_ds)
    THEN Stage(1, "vfstab", Ev(st, "be_update_vfstab", bt.nbe_root_ds, FALSE), bt, TRUE)
    ELSE
    LET st1 == Ev([st EXCEPT !.vfstab = @ \cup {bt.nbe_name}],
                  "be_update_vfstab", bt.nbe_root_ds, TRUE) IN
    IF Faulty(F, "be_append_grub", bt.nbe_root_ds)
    THEN Stage(1, "grub", Ev(st1, "be_append_grub", bt.nbe_root_ds, FALSE), bt, TRUE)
    ELSE
    LET st2 == Ev([st1 EXCEPT !.grub = @ \cup {bt.nbe_name}],
                  "be_append_grub", bt.nbe_root_ds, TRUE) IN
    IF ~bt.autoname THEN Stage(0, "none", st2, bt, TRUE)
    ELSE
    LET o == zfs_open(st2, F, bt.nbe_root_ds, bt.nbe_root_ds \in DOMAIN st2.ds) IN
    IF ~o.ok THEN Stage(1, "open_new_root", o.st, bt, TRUE)
    ELSE IF Faulty(F, "zfs_prop_set", bt.nbe_root_ds)
    THEN Stage(1, "policy", Ev(o.st, "zfs_prop_set", bt.nbe_root_ds, FALSE), bt, TRUE)
    ELSE
    LET st3 == Ev([o.st EXCEPT !.ds[bt.nbe_root_ds].props =
                        nvlist_add_string(@, BE_POLICY_PROPERTY, bt.policy)],
                  "zfs_prop_set", bt.nbe_root_ds, TRUE)
    IN  Stage(0, "none", be_copy_return_name(zfs_close(st3, bt.nbe_root_ds), F, bt),
              bt, TRUE)

\* The label done, reached by goto or by falling through; a plain return
\* and a call that never returns do not pass it.
be_copy_done(s) ==
    IF s.done /\ s.ret # NORETURN
    THEN [ret |-> s.ret, err |-> s.err, st |-> be_zfs_fini(s.st), bt |-> s.bt]
    ELSE [ret |-> s.ret, err |-> s.err, st |-> s.st, bt |-> s.bt]

\* The stages of be_copy in the order of the code; a failed stage leaves
\* through its own exit and the later stages are not run.
be_copy_from_finish(s4, F) ==
    IF s4.ret # 0 THEN s4 ELSE be_copy_finish(s4.st, F, s4.bt)

be_copy_from_data(s3, F, races) ==
    IF s3.ret # 0 THEN s3
    ELSE be_copy_from_finish(IF s3.bt.obe_zpool = s3.bt.nbe_zpool
                             THEN be_copy_clone(s3.st, F, s3.bt, races)
                             ELSE be_copy_send(s3.st, F, s3.bt, races), F)

be_copy_from_snap(s2, F, races) ==
    IF s2.ret # 0 THEN s2
    ELSE be_copy_from_data(be_copy_snap(s2.st, F, s2.bt), F, races)

be_copy_from_new(s1, F, races) ==
    IF s1.ret # 0 THEN s1
    ELSE be_copy_from_snap(be_copy_new(s1.st, s1.bt), F, races)

be_copy_body(st, F, a, races) ==
    be_copy_from_new(be_copy_orig(st, F, a), F, races)

be_copy(st0, F, a, races) ==
    IF Faulty(F, "be_zfs_init", <<>>)
    THEN [ret |-> 1, err |-> "zfs_init", st |-> Ev(st0, "be_zfs_init", <<>>, FALSE),
          bt |-> NoBt]
    ELSE be_copy_done(be_copy_body(be_zfs_init(st0), F, a, races))

-----------------------------------------------------------------------------
(* be_destroy *)

RemoveDataset(ds, name) == [d \in DOMAIN ds \ {name} |-> ds[d]]

\* zfs_unmount(zhp, NULL, B_TRUE): [ok, st]
zfs_unmount(st, F, zhp) ==
    IF Faulty(F, "zfs_unmount", zhp)
    THEN [ok |-> FALSE, st |-> Ev(st, "zfs_unmount", zhp, FALSE)]
    ELSE [ok |-> TRUE,
          st |-> Ev([st EXCEPT !.ds[zhp].mounted = NotMounted], "zfs_unmount", zhp, TRUE)]

\* zfs_destroy(zhp): the library refuses a dataset that has children or
\* snapshots: [ok, st]
zfs_destroy(st, F, zhp) ==
    IF \/ Faulty(F, "zfs_destroy", zhp)
       \/ Subtree(st.ds, zhp) # {zhp}
       \/ \E x \in st.snaps : x[1] = zhp
    THEN [ok |-> FALSE, st |-> Ev(st, "zfs_destroy", zhp, FALSE)]
    ELSE [ok |-> TRUE,
          st |-> Ev([st EXCEPT !.ds = RemoveDataset(@, zhp)], "zfs_destroy", zhp, TRUE)]

\* zfs_destroy_snaps(zhp, snap): destroys <d>@<snap> on zhp and on every
\* dataset below it; refused when one of them has a clone: [ok, st]
zfs_destroy_snaps(st, F, zhp, snap) ==
    LET gone == {x \in st.snaps : x[2] = snap /\ IsPrefix(zhp, x[1])}
    IN  IF \/ Faulty(F, "zfs_destroy_snaps", SnapName(<<zhp, snap>>))
           \/ \E x \in gone : NumClones(st.ds, x) > 0
        THEN [ok |-> FALSE, st |-> Ev(st, "zfs_destroy_snaps", SnapName(<<zhp, snap>>), FALSE)]
        ELSE [ok |-> TRUE,
              st |-> Ev([st EXCEPT !.snaps = @ \ gone],
                        "zfs_destroy_snaps", SnapName(<<zhp, snap>>), TRUE)]

\* be_get_snap: the dataset and the snapshot name of an origin; it fails on
\* an origin without a snapshot name
be_get_snap(origin) ==
    IF Len(origin) = 2 /\ origin[2] # ""
    THEN [ok |-> TRUE, parent |-> origin[1], snap |-> origin[2]]
    ELSE [ok |-> FALSE, parent |-> <<>>, snap |-> NULL]

\* A faulty be_destroy_callback that reports success whatever zfs_destroy did
be_destroy_callback_result_zero(d) == 0

\* The return value of be_destroy_callback after zfs_destroy
be_destroy_callback_result(d) == IF d.ok THEN 0 ELSE 1

\* A faulty be_destroy_callback that goes on to the dataset itself when the
\* walk over its children has failed
be_destroy_children_failed_never(r) == FALSE

\* "if (zfs_iter_filesystems(zhp, be_destroy_callback, NULL) != 0)"
be_destroy_children_failed(r) == r.ret # 0

\* A faulty be_destroy_callback that destroys a dataset it could not unmount
be_destroy_unmount_failed_never(u) == FALSE

\* "zfs_unmount(zhp, NULL, B_TRUE) != 0 ||": zfs_destroy is not called
be_destroy_unmount_failed(u) == ~u.ok

\* be_destroy_callback: children first, then unmount and destroy: [ret, st]
RECURSIVE be_destroy_callback(_, _, _), be_destroy_iter(_, _, _, _)
be_destroy_callback(st, F, zhp) ==
    LET r == be_destroy_iter(st, F, Children(st.ds, zhp), 1) IN
    IF be_destroy_children_failed(r) THEN [ret |-> 1, st |-> r.st]
    ELSE LET u == zfs_unmount(r.st, F, zhp) IN
         IF be_destroy_unmount_failed(u) THEN [ret |-> 1, st |-> zfs_close(u.st, zhp)]
         ELSE LET d == zfs_destroy(u.st, F, zhp)
              IN  [ret |-> be_destroy_callback_result(d), st |-> zfs_close(d.st, zhp)]

be_destroy_iter(st, F, kids, i) ==
    IF i > Len(kids) THEN [ret |-> 0, st |-> st]
    ELSE LET st1 == Ev([st EXCEPT !.handles = @ + 1], "iter_open", kids[i], TRUE)
             r == be_destroy_callback(st1, F, kids[i])
         IN  IF r.ret # 0 THEN r
             ELSE be_destroy_iter(r.st, F, kids, i + 1)

\* A faulty be_destroy that takes every origin snapshot for one of the BE
be_destroy_origin_is_own_always(snap, obe_name) == TRUE

\* "If origin snapshot name is equal to the name of the BE we just deleted"
be_destroy_origin_is_own(snap, obe_name) == snap = obe_name

\* "If BE has an origin": [ret, err, st], leaving through the label done
be_destroy_origin(st, F, obe_name, origin, parent, snap) ==
    IF ~be_destroy_origin_is_own(snap, obe_name) THEN Ret(0, "none", st)
    ELSE
    LET o == zfs_open(st, F, SnapName(origin), origin \in st.snaps) IN
    IF ~o.ok THEN Ret(1, "open_origin", o.st)
    ELSE IF Faulty(F, "zfs_prop_get", SnapName(origin))
    THEN Ret(1, "numclones", Ev(o.st, "zfs_prop_get", SnapName(origin), FALSE))
    ELSE
    LET numclone == NumClones(o.st.ds, origin)
        st1 == zfs_close(Ev(o.st, "zfs_prop_get", SnapName(origin), TRUE), SnapName(origin))
    IN  IF numclone # 0 THEN Ret(0, "none", st1)
        ELSE
        LET p == zfs_open(st1, F, parent, parent \in DOMAIN st1.ds) IN
        IF ~p.ok THEN Ret(1, "open_parent", p.st)
        ELSE LET d == zfs_destroy_snaps(p.st, F, parent, snap)
             IN  IF ~d.ok THEN Ret(1, "destroy_snaps", d.st)
                 ELSE Ret(0, "none", zfs_close(d.st, parent))

\* A faulty be_destroy that leaves the boot menu alone when the origin step
\* has failed
be_destroy_done_on_success(r, F, obe_name) ==
    IF r.ret # 0 THEN Ret(r.ret, r.err, be_zfs_fini(r.st))
    ELSE IF Faulty(F, "be_remove_grub", <<obe_name>>)
    THEN Ret(1, "grub", Ev(r.st, "be_remove_grub", <<obe_name>>, FALSE))
    ELSE Ret(r.ret, r.err,
             be_zfs_fini(Ev([r.st EXCEPT !.grub = @ \ {obe_name}],
                            "be_remove_grub", <<obe_name>>, TRUE)))

\* The label done of be_destroy
be_destroy_done(r, F, obe_name) ==
    IF Faulty(F, "be_remove_grub", <<obe_name>>)
    THEN Ret(1, "grub", Ev(r.st, "be_remove_grub", <<obe_name>>, FALSE))
    ELSE Ret(r.ret, r.err,
             be_zfs_fini(Ev([r.st EXCEPT !.grub = @ \ {obe_name}],
                            "be_remove_grub", <<obe_name>>, TRUE)))

\* A faulty be_destroy that takes every BE for unmounted
be_destroy_is_mounted_never(st, zhp) == FALSE

\* "Is BE mounted"
be_destroy_is_mounted(st, zhp) == st.ds[zhp].mounted # NotMounted

\* A faulty be_destroy that goes on whatever be_destroy_callback returned
be_destroy_teardown_failed_never(c) == FALSE

\* "if (be_destroy_callback(zhp, NULL) != 0)"
be_destroy_teardown_failed(c) == c.ret # 0

\* A faulty be_destroy that leaves through the label done when the teardown
\* has failed
be_destroy_teardown_goto_done(st, F, obe_root_ds, obe_name) ==
    be_destroy_done(Ret(1, "destroy", zfs_close(st, obe_root_ds)), F, obe_name)

\* "ZFS_CLOSE(zhp); ... return (1)" after a failed be_destroy_callback
be_destroy_teardown_return(st, F, obe_root_ds, obe_name) ==
    Ret(1, "destroy", zfs_close(st, obe_root_ds))

be_destroy(st0, F, a) ==
    IF Faulty(F, "be_zfs_init", <<>>)
    THEN Ret(1, "zfs_init", Ev(st0, "be_zfs_init", <<>>, FALSE))
    ELSE LET st == be_zfs_init(st0) IN
    IF a.orig_be_name = NULL THEN Ret(1, "lookup_name", st)
    ELSE IF ~be_valid_be_name(a.orig_be_name) THEN Ret(1, "invalid_name", st)
    ELSE
    LET z == be_find_zpool(st, a.orig_be_name) IN
    IF ~z.found THEN Ret(1, "no_zpool", st)
    ELSE
    LET obe_root_ds == be_make_root_ds(z.zpool, a.orig_be_name)
        o == zfs_open(st, F, obe_root_ds, obe_root_ds \in DOMAIN st.ds)
    IN
    IF ~o.ok THEN Ret(1, "open_root", o.st)
    ELSE IF be_destroy_is_mounted(o.st, obe_root_ds)
    THEN Ret(1, "mounted", Ev(o.st, "zfs_is_mounted", obe_root_ds, TRUE))
    ELSE
    LET origin == o.st.ds[obe_root_ds].origin
        has_origin == origin # NoOrigin
        g == be_get_snap(origin)
        st1 == Ev(Ev(o.st, "zfs_is_mounted", obe_root_ds, FALSE),
                  "zfs_prop_get_origin", obe_root_ds, has_origin)
    IN
    IF has_origin /\ ~g.ok THEN Ret(1, "get_snap", st1)
    ELSE
    LET c == be_destroy_callback(st1, F, obe_root_ds) IN
    IF be_destroy_teardown_failed(c)
    THEN be_destroy_teardown_return(c.st, F, obe_root_ds, a.orig_be_name)
    ELSE be_destroy_done(
             IF has_origin
             THEN be_destroy_origin(c.st, F, a.orig_be_name, origin, g.parent, g.snap)
             ELSE Ret(0, "none", c.st),
             F, a.orig_be_name)

-----------------------------------------------------------------------------
(* Inputs *)

FsLists == {<<Slash>>, <<Slash, Var>>, <<Var, VarLog>>, <<VarLog>>, <<Var, Var>>}

CallerProps ==
    nvlist_add_string(nvlist_add_string(EmptyNvl, "mountpoint", "/bogus"),
                      "canmount", "on")

InitAttr(name, pool, has_fs, fs, num, shared, props) ==
    [new_be_name |-> name, new_be_pool |-> pool,
     has_fs |-> has_fs, fs_names |-> fs, fs_num |-> num,
     has_shared |-> shared,
     shared_fs_names |-> IF shared THEN <<<<"export">>>> ELSE <<>>,
     shared_fs_num |-> IF shared THEN 1 ELSE 0,
     has_props |-> props, zfs_props |-> IF props THEN CallerProps ELSE EmptyNvl]

InitAttrs ==
    {InitAttr(n, p, TRUE, fs, Len(fs), x, x) :
        n \in {"be1", "be2"}, p \in Pools, fs \in FsLists, x \in BOOLEAN}
    \cup {InitAttr(BadName, "rpool", TRUE, <<Slash>>, 1, FALSE, FALSE),
          InitAttr(NULL, "rpool", TRUE, <<Slash>>, 1, FALSE, FALSE),
          InitAttr("be2", NULL, TRUE, <<Slash>>, 1, FALSE, FALSE),
          InitAttr("be2", "nopool", TRUE, <<Slash>>, 1, FALSE, FALSE),
          InitAttr("be2", "rpool", TRUE, <<Slash, Var>>, 1, FALSE, FALSE),
          InitAttr("be2", "rpool", FALSE, <<>>, 0, FALSE, FALSE)}

CopyAttr(orig, snap, new, pool, props) ==
    [orig_be_name |-> orig, snap_name |-> snap, new_be_name |-> new,
     new_be_pool |-> pool, policy |-> NULL,
     has_props |-> props, zfs_props |-> IF props THEN CallerProps ELSE EmptyNvl]

CopyAttrs ==
    {CopyAttr(o, s, n, p, FALSE) :
        o \in {NULL, "be1", "be2"}, s \in {NULL, "be2"},
        n \in {NULL, "be2", "be3"}, p \in {NULL, "tank"}}
    \cup {CopyAttr("be1", NULL, NULL, NULL, TRUE),
          CopyAttr("be1", NULL, "be3", "tank", TRUE),
          CopyAttr(BadName, NULL, "be3", NULL, FALSE),
          CopyAttr("be1", NULL, BadName, NULL, FALSE),
          CopyAttr("be1", "nosnap", "be3", NULL, FALSE),
          CopyAttr("be1", NULL, "be3", "rpool", FALSE),
          CopyAttr("be1", NULL, "be3", "nopool", FALSE)}

\* The attempts at which another process can take the new BE's name
Races(a) == IF a.new_be_name = NULL THEN 0..BE_AUTO_NAME_MAX_TRY ELSE 0..1

DestroyAttrs == {[orig_be_name |-> n] : n \in BENames \cup {"auto-1", BadName, NULL}}

-----------------------------------------------------------------------------
(* The state machine *)

NoOut == [snap_name |-> NULL, new_be_name |-> NULL]

MkSt(ds, sn, gr, vf, z) ==
    [ds |-> ds, snaps |-> sn, grub |-> gr, vfstab |-> vf, zfs |-> z,
     handles |-> 0, log |-> <<>>, out |-> NoOut, rets |-> <<>>]

St == MkSt(datasets, snaps, grub, vfstab, g_zfs)

\* The states a behaviour starts in, each made by the library itself: no BE
\* at all; be1 installed by be_init; be1 booted; be1 booted with its clone
\* be2; be1 booted with the clones be2 and be3 of one snapshot.
Fresh(st) == MkSt(st.ds, st.snaps, st.grub, st.vfstab, st.zfs)

EmptySt == MkSt([d \in {} |-> NewDataset(EmptyNvl, NoOrigin)], {}, {}, {}, FALSE)

InstalledSt ==
    Fresh(be_init(EmptySt, {},
                  InitAttr("be1", "rpool", TRUE, <<Slash, Var, VarLog>>, 3,
                           FALSE, FALSE)).st)

BootedSt ==
    [InstalledSt EXCEPT !.ds[be_make_root_ds("rpool", "be1")].mounted = "/",
                        !.grub = {"be1"}]

ClonedSt ==
    Fresh(be_copy(BootedSt, {}, CopyAttr("be1", NULL, "be2", NULL, FALSE), 0).st)

ClonedTwiceSt ==
    Fresh(be_copy(ClonedSt, {}, CopyAttr("be1", "be2", "be3", NULL, FALSE), 0).st)

InitStates == {EmptySt, InstalledSt, BootedSt, ClonedSt, ClonedTwiceSt}

NoAttrs == [new_be_name |-> NULL]

\* The record of a call: its attributes, the faults and races it met, what it
\* returned, the trace of its library calls, and the state it started in
Call(op, a, ret, err, st, bt, F, races) ==
    [op |-> op, attrs |-> a, faults |-> F, races |-> races,
     ret |-> ret, err |-> err,
     log |-> st.log, handles |-> st.handles, out |-> st.out, rets |-> st.rets,
     bt |-> bt,
     pre |-> [ds |-> datasets, snaps |-> snaps, grub |-> grub, vfstab |-> vfstab]]

Init ==
    /\ \E s \in InitStates :
        /\ datasets = s.ds
        /\ snaps = s.snaps
        /\ grub = s.grub
        /\ vfstab = s.vfstab
        /\ g_zfs = s.zfs
    /\ last = Call("none", NoAttrs, 0, "none", EmptySt, NoBt, {}, 0)
    /\ nops = 0
    /\ nfaults = 0

Commit(op, a, r, bt, F, races) ==
    /\ datasets' = r.st.ds
    /\ snaps' = r.st.snaps
    /\ grub' = r.st.grub
    /\ vfstab' = r.st.vfstab
    /\ g_zfs' = r.st.zfs
    /\ last' = Call(op, a, r.ret, r.err, r.st, bt, F, races)
    /\ nops' = nops + 1
    /\ nfaults' = nfaults + Cardinality(F)

BeInit ==
    /\ nops < MaxOps
    /\ \E a \in InitAttrs :
        \E F \in EffFaults(LAMBDA X : be_init(St, X, a), MaxFaults - nfaults) :
            Commit("init", a, be_init(St, F, a), NoBt, F, 0)

BeCopy ==
    /\ nops < MaxOps
    /\ \E a \in CopyAttrs :
        \E races \in Races(a) :
            \E F \in EffFaults(LAMBDA X : be_copy(St, X, a, races),
                               MaxFaults - nfaults) :
                LET r == be_copy(St, F, a, races)
                IN  Commit("copy", a, r, r.bt, F, races)

BeDestroy ==
    /\ nops < MaxOps
    /\ \E a \in DestroyAttrs :
        \E F \in EffFaults(LAMBDA X : be_destroy(St, X, a), MaxFaults - nfaults) :
            Commit("destroy", a, be_destroy(St, F, a), NoBt, F, 0)

\* A caller mounts a BE that is not mounted, at "/" when no BE is mounted
\* there (the system boots it), or at an alternate root.
Mount ==
    /\ nops < MaxOps
    /\ \E d \in DOMAIN datasets, mp \in {"/", "/mnt"} :
        /\ Len(d) = 3
        /\ datasets[d].mounted = NotMounted
        /\ mp = "/" => \A x \in DOMAIN datasets : datasets[x].mounted # "/"
        /\ datasets' = [datasets EXCEPT ![d].mounted = mp]
        /\ last' = Call("mount", [orig_be_name |-> d[3]], 0, "none", EmptySt, NoBt,
                         {}, 0)
    /\ nops' = nops + 1
    /\ UNCHANGED <<snaps, grub, vfstab, g_zfs, nfaults>>

\* A caller unmounts a BE from an alternate root.
Unmount ==
    /\ nops < MaxOps
    /\ \E d \in DOMAIN datasets :
        /\ datasets[d].mounted \notin {NotMounted, "/"}
        /\ datasets' = [datasets EXCEPT ![d].mounted = NotMounted]
        /\ last' = Call("unmount", [orig_be_name |-> d[3]], 0, "none", EmptySt,
                         NoBt, {}, 0)
    /\ nops' = nops + 1
    /\ UNCHANGED <<snaps, grub, vfstab, g_zfs, nfaults>>

\* An administrator lets a dataset below the root of a BE inherit its
\* mountpoint (zfs inherit mountpoint): the source of the property is no
\* longer ZPROP_SRC_LOCAL.
Inherit ==
    /\ nops < MaxOps
    /\ \E d \in DOMAIN datasets :
        /\ Len(d) > 3
        /\ d[2] = BE_CONTAINER_DS_NAME
        /\ "mountpoint" \in DOMAIN datasets[d].props
        /\ datasets' = [datasets EXCEPT ![d].props = nvlist_remove_all(@, "mountpoint")]
        /\ last' = Call("inherit", [orig_be_name |-> d[3]], 0, "none", EmptySt,
                         NoBt, {}, 0)
    /\ nops' = nops + 1
    /\ UNCHANGED <<snaps, grub, vfstab, g_zfs, nfaults>>

Next == BeInit \/ BeCopy \/ BeDestroy \/ Mount \/ Unmount \/ Inherit

Spec == Init /\ [][Next]_vars

-----------------------------------------------------------------------------
(* Properties.  last.pre is the state the last call started in.            *)

\* The BE root datasets of a namespace
BERoots(ds) == {d \in DOMAIN ds : Len(d) = 3 /\ d[2] = BE_CONTAINER_DS_NAME}

\* The datasets of a namespace that lie in a BE container
BEDatasets(ds) == {d \in DOMAIN ds : Len(d) >= 3 /\ d[2] = BE_CONTAINER_DS_NAME}

\* The pools in which a name has a BE root dataset
PoolsOf(ds, name) == {p \in Pools : be_make_root_ds(p, name) \in DOMAIN ds}

\* The position of the first logged call that satisfies Test, 0 when none does
FirstEvent(log, Test(_)) ==
    LET hits == {i \in 1..Len(log) : Test(log[i])}
    IN  IF hits = {} THEN 0 ELSE CHOOSE i \in hits : \A j \in hits : i <= j

\* C1: no BE name has a root dataset in more than one pool, and be_init and
\* be_copy called with a destination name that already has a BE root
\* dataset in some pool, the destination pool or another, fail.
C1_NameUniqueAcrossPools ==
    /\ \A d1, d2 \in BERoots(datasets) : d1[3] = d2[3] => d1 = d2
    /\ (last.op \in {"init", "copy"} /\ last.attrs.new_be_name # NULL
        /\ PoolsOf(last.pre.ds, last.attrs.new_be_name) # {})
       => /\ last.ret # 0
          /\ PoolsOf(datasets, last.attrs.new_be_name)
                = PoolsOf(last.pre.ds, last.attrs.new_be_name)

\* C1 happens: be_copy to the pool tank with a name whose BE lives in rpool
\* has failed because the BE exists.
C1_Witness ==
    /\ last.op = "copy"
    /\ last.attrs.new_be_name # NULL
    /\ last.attrs.new_be_pool = "tank"
    /\ PoolsOf(last.pre.ds, last.attrs.new_be_name) = {"rpool"}
    /\ last.ret # 0
    /\ last.err = "exists"

\* C2: a pool that holds a BE dataset holds the BE container; a call leaves
\* a container that exists as it is, creates a missing one with mountpoint
\* legacy and canmount off, and creates it before the first dataset it
\* creates in that container.
C2_ContainerBeforeBE ==
    /\ \A d \in BEDatasets(datasets) : be_make_container_ds(d[1]) \in DOMAIN datasets
    /\ \A p \in Pools :
        LET c == be_make_container_ds(p)
            made == FirstEvent(last.log,
                        LAMBDA e : e.call = "zfs_create" /\ e.target = c /\ e.ok)
            first == FirstEvent(last.log,
                        LAMBDA e : /\ e.call \in {"zfs_create", "zfs_clone"}
                                   /\ e.ok
                                   /\ Len(e.target) >= 3
                                   /\ e.target[1] = p
                                   /\ e.target[2] = BE_CONTAINER_DS_NAME)
        IN  /\ c \in DOMAIN last.pre.ds
                => c \in DOMAIN datasets /\ datasets[c] = last.pre.ds[c] /\ made = 0
            /\ (c \notin DOMAIN last.pre.ds /\ c \in DOMAIN datasets)
                => /\ last.op \in {"init", "copy"}
                   /\ datasets[c].props = [mountpoint |-> ZFS_MOUNTPOINT_LEGACY,
                                           canmount |-> "off"]
                   /\ made > 0
            /\ (c \notin DOMAIN last.pre.ds /\ first > 0) => (0 < made /\ made < first)

\* C2 happens: a copy into the pool tank, which had no container, has made
\* the container and the new BE in it.
C2_Witness ==
    /\ last.op = "copy"
    /\ last.ret = 0
    /\ be_make_container_ds("tank") \notin DOMAIN last.pre.ds
    /\ be_make_container_ds("tank") \in DOMAIN datasets
    /\ last.bt.nbe_root_ds \in DOMAIN datasets
    /\ last.bt.nbe_root_ds[1] = "tank"

\* C3: after a successful be_init of the name N in the pool P the locator
\* (zpool_iter with be_find_zpool_callback) finds N and yields P.
C3_InitThenFindPool ==
    (last.op = "init" /\ last.ret = 0)
    => LET z == be_find_zpool(St, last.attrs.new_be_name)
       IN  z.found /\ z.zpool = last.attrs.new_be_pool

\* C3 happens: be_init has made a BE in tank, the second pool the locator
\* visits, while rpool holds another BE.
C3_Witness ==
    /\ last.op = "init"
    /\ last.ret = 0
    /\ last.attrs.new_be_pool = "tank"
    /\ \E d \in BERoots(datasets) : d[1] = "rpool"
    /\ PoolsOf(last.pre.ds, last.attrs.new_be_name) = {}

\* The attributes of a be_init call that can succeed on a system without
\* the BE
WellFormedInit(a) ==
    /\ a.new_be_name \in BENames
    /\ a.new_be_pool \in Pools
    /\ a.has_fs
    /\ Len(a.fs_names) = a.fs_num
    /\ (IF a.has_shared THEN Len(a.shared_fs_names) ELSE 0) = a.shared_fs_num

\* C4: be_init of a name and pool that be_init has been called with before
\* fails, with the outcome "BE already exists" when no library call fails,
\* and the datasets of the first BE and their properties are as before.
C4_SecondInitFails ==
    (/\ last.op = "init"
     /\ last.attrs.new_be_name \in BENames
     /\ last.attrs.new_be_pool \in Pools
     /\ be_make_root_ds(last.attrs.new_be_pool, last.attrs.new_be_name)
            \in DOMAIN last.pre.ds)
    => LET root == be_make_root_ds(last.attrs.new_be_pool, last.attrs.new_be_name)
       IN  /\ last.ret # 0
           /\ Subtree(datasets, root) = Subtree(last.pre.ds, root)
           /\ \A d \in Subtree(last.pre.ds, root) : datasets[d] = last.pre.ds[d]
           /\ (WellFormedInit(last.attrs) /\ last.faults = {}) => last.err = "exists"

\* C4 happens: a second be_init of a BE with child datasets, with file
\* systems the first one did not have, has failed with "BE already exists".
C4_Witness ==
    /\ last.op = "init"
    /\ last.err = "exists"
    /\ last.attrs.new_be_pool \in Pools
    /\ Cardinality(Subtree(last.pre.ds,
            be_make_root_ds(last.attrs.new_be_pool, last.attrs.new_be_name))) > 1
    /\ last.attrs.fs_names = <<Slash>>

\* C5: a successful be_init leaves the container, the root dataset with
\* mountpoint legacy and canmount noauto whatever the caller's properties
\* say, one dataset per file system other than "/" with that path as
\* mountpoint and canmount noauto, and no other new BE dataset.
C5_InitLayout ==
    (last.op = "init" /\ last.ret = 0)
    => LET a == last.attrs
           root == be_make_root_ds(a.new_be_pool, a.new_be_name)
           paths == Range(a.fs_names) \ {Slash}
       IN  /\ be_make_container_ds(a.new_be_pool) \in DOMAIN datasets
           /\ Subtree(last.pre.ds, root) = {}
           /\ Subtree(datasets, root) = {root} \cup {root \o fs : fs \in paths}
           /\ datasets[root].props["mountpoint"] = ZFS_MOUNTPOINT_LEGACY
           /\ datasets[root].props["canmount"] = "noauto"
           /\ \A fs \in paths :
                /\ datasets[root \o fs].props["mountpoint"] = FsName(fs)
                /\ datasets[root \o fs].props["canmount"] = "noauto"
           /\ BEDatasets(datasets) \ Subtree(datasets, root) = BEDatasets(last.pre.ds)
           /\ \A d \in BEDatasets(last.pre.ds) : datasets[d] = last.pre.ds[d]

\* C5 happens: be_init with the file systems "/" and "/var" and with caller
\* properties that set mountpoint and canmount has succeeded.
C5_Witness ==
    /\ last.op = "init"
    /\ last.ret = 0
    /\ last.attrs.fs_names = <<Slash, Var>>
    /\ last.attrs.has_props
    /\ last.attrs.zfs_props["mountpoint"] # ZFS_MOUNTPOINT_LEGACY
    /\ last.attrs.zfs_props["canmount"] # "noauto"
    /\ Cardinality(Subtree(datasets,
            be_make_root_ds(last.attrs.new_be_pool, last.attrs.new_be_name))) = 2

\* C6: a successful be_copy without a destination name leaves, below the
\* root of the new BE, exactly the relative dataset paths of the original.
C6_AutoCopySameTree ==
    (last.op = "copy" /\ last.attrs.new_be_name = NULL /\ last.ret = 0)
    => RelPaths(datasets, last.bt.nbe_root_ds)
          = RelPaths(last.pre.ds, last.bt.obe_root_ds)

\* The candidate names no pool had a BE of when the last call started, in
\* the order be_auto_be_name gives them
FreeNames == SelectSeq(AutoNames, LAMBDA n : PoolsOf(last.pre.ds, n) = {})

\* The attempts of the last call that found their candidate taken
Collisions ==
    Cardinality({i \in 1..Len(last.log) : last.log[i].call = "external_create"})

\* The last call has come to the point of cloning the root dataset
CloneReached ==
    \E i \in 1..Len(last.log) :
        last.log[i].call = "zfs_clone" /\ Len(last.log[i].target) = 3

\* C7: be_copy without a destination name makes at most
\* BE_AUTO_NAME_MAX_TRY attempts; when k attempts found their candidate
\* taken it succeeds only with the candidate after them, it does so when k
\* is below the maximum and no library call fails, and it fails when all
\* BE_AUTO_NAME_MAX_TRY attempts collide.
C7_AutoNameRetry ==
    (last.op = "copy" /\ last.attrs.new_be_name = NULL)
    => /\ Collisions <= BE_AUTO_NAME_MAX_TRY
       /\ Collisions = BE_AUTO_NAME_MAX_TRY => last.ret # 0
       /\ last.ret = 0
            => /\ Collisions < Len(FreeNames)
               /\ last.bt.nbe_name = FreeNames[Collisions + 1]
               /\ last.bt.nbe_root_ds \in DOMAIN datasets
               /\ \A i \in 1..Collisions :
                    be_make_root_ds(last.bt.nbe_zpool, FreeNames[i]) \in DOMAIN datasets
       /\ (CloneReached /\ last.faults = {} /\ last.races < Len(FreeNames))
            => /\ Collisions = last.races
               /\ last.races < BE_AUTO_NAME_MAX_TRY => last.ret = 0
               /\ last.races = BE_AUTO_NAME_MAX_TRY => last.err = "no_unique_name"

\* C7 happens: two attempts found their candidate taken and the copy has
\* succeeded with the third candidate.
C7_Witness ==
    /\ last.op = "copy"
    /\ last.attrs.new_be_name = NULL
    /\ last.ret = 0
    /\ Collisions = BE_AUTO_NAME_MAX_TRY - 1
    /\ last.bt.nbe_name = FreeNames[BE_AUTO_NAME_MAX_TRY]

\* The BE the last be_destroy was called for, when it is a clone made in
\* the pool of its origin: [is, root, origin]
DestroyedClone ==
    LET ps == IF last.op = "destroy"
              THEN PoolsOf(last.pre.ds, last.attrs.orig_be_name) ELSE {}
        root == IF ps = {} THEN <<>>
                ELSE be_make_root_ds(CHOOSE p \in ps : TRUE, last.attrs.orig_be_name)
        origin == IF ps = {} THEN NoOrigin ELSE last.pre.ds[root].origin
    IN  [is |-> origin # NoOrigin /\ origin[1][1] = root[1],
         root |-> root, origin |-> origin]

\* C8: a successful be_destroy of a BE C cloned from a BE B in the same pool
\* leaves no dataset at or below the root of C and every dataset of B as it
\* was, and when the snapshot C was cloned from has another clone, the
\* snapshots of that name on B and below it are all still there.
C8_DestroyAfterCopy ==
    (DestroyedClone.is /\ last.ret = 0)
    => LET c == DestroyedClone.root
           b == DestroyedClone.origin[1]
           snap == DestroyedClone.origin[2]
           others == {d \in DOMAIN last.pre.ds \ Subtree(last.pre.ds, c) :
                        last.pre.ds[d].origin = DestroyedClone.origin}
       IN  /\ Subtree(datasets, c) = {}
           /\ \A d \in Subtree(last.pre.ds, b) :
                d \in DOMAIN datasets /\ datasets[d] = last.pre.ds[d]
           /\ others # {}
                => {x \in last.pre.snaps : x[2] = snap /\ IsPrefix(b, x[1])}
                      \subseteq snaps

\* C8 happens: be2 and be3 were clones of the snapshot be2 of be1, be2 has
\* been destroyed, and the snapshot is still on be1 and on its children.
C8_Witness ==
    /\ DestroyedClone.is
    /\ last.ret = 0
    /\ last.attrs.orig_be_name = "be2"
    /\ DestroyedClone.origin = <<be_make_root_ds("rpool", "be1"), "be2">>
    /\ be_make_root_ds("rpool", "be3") \in DOMAIN last.pre.ds
    /\ last.pre.ds[be_make_root_ds("rpool", "be3")].origin = DestroyedClone.origin
    /\ Cardinality({x \in snaps : x[2] = "be2"}) = 3
    /\ be_make_root_ds("rpool", "be2") \notin DOMAIN datasets

\* C9: a successful be_copy into another pool leaves, below the root of the
\* new BE in that pool, exactly the relative dataset paths of the original;
\* none of these datasets has an origin, and no snapshot of the original
\* has more clones than before.
C9_CrossPoolCopy ==
    (last.op = "copy" /\ last.ret = 0 /\ last.bt.obe_zpool # last.bt.nbe_zpool)
    => /\ last.bt.nbe_root_ds
            = be_make_root_ds(last.attrs.new_be_pool, last.attrs.new_be_name)
       /\ RelPaths(datasets, last.bt.nbe_root_ds)
            = RelPaths(last.pre.ds, last.bt.obe_root_ds)
       /\ \A d \in Subtree(datasets, last.bt.nbe_root_ds) :
            datasets[d].origin = NoOrigin
       /\ \A x \in snaps :
            IsPrefix(last.bt.obe_root_ds, x[1])
                => NumClones(datasets, x) = NumClones(last.pre.ds, x)

\* C9 happens: a BE of three datasets in rpool has been copied to tank.
C9_Witness ==
    /\ last.op = "copy"
    /\ last.ret = 0
    /\ last.bt.obe_zpool = "rpool"
    /\ last.bt.nbe_zpool = "tank"
    /\ Cardinality(Subtree(datasets, last.bt.nbe_root_ds)) = 3
    /\ <<last.bt.obe_root_ds, last.bt.obe_snap_name>> \in snaps

\* The root dataset of the BE the last be_destroy was called for, when that
\* BE existed and was mounted: [is, root]
DestroyedMounted ==
    LET ps == IF last.op = "destroy"
              THEN PoolsOf(last.pre.ds, last.attrs.orig_be_name) ELSE {}
        root == IF ps = {} THEN <<>>
                ELSE be_make_root_ds(CHOOSE p \in ps : TRUE, last.attrs.orig_be_name)
    IN  [is |-> ps # {} /\ last.pre.ds[root].mounted # NotMounted, root |-> root]

\* C10: be_destroy of a BE whose root dataset is mounted fails; it unmounts
\* and destroys nothing and removes no boot-menu entry: the datasets, the
\* snapshots and the boot menu are as they were.
C10_DestroyMountedRefused ==
    DestroyedMounted.is
    => /\ last.ret # 0
       /\ datasets = last.pre.ds
       /\ snaps = last.pre.snaps
       /\ grub = last.pre.grub
       /\ \A i \in 1..Len(last.log) :
            last.log[i].call \notin {"zfs_unmount", "zfs_destroy",
                                     "zfs_destroy_snaps", "be_remove_grub"}

\* C10 happens: the destroy of a mounted BE that has child datasets and a
\* boot-menu entry has been refused because it is mounted.
C10_Witness ==
    /\ DestroyedMounted.is
    /\ last.err = "mounted"
    /\ last.attrs.orig_be_name \in grub
    /\ Cardinality(Subtree(datasets, DestroyedMounted.root)) > 1

\* The BE whose whole hierarchy the last be_destroy removed: [is, root, origin]
DestroyedHierarchy ==
    LET ps == IF last.op = "destroy"
              THEN {p \in PoolsOf(last.pre.ds, last.attrs.orig_be_name) :
                      Subtree(datasets,
                              be_make_root_ds(p, last.attrs.orig_be_name)) = {}}
              ELSE {}
        root == IF ps = {} THEN <<>>
                ELSE be_make_root_ds(CHOOSE p \in ps : TRUE, last.attrs.orig_be_name)
    IN  [is |-> ps # {}, root |-> root,
         origin |-> IF ps = {} THEN NoOrigin ELSE last.pre.ds[root].origin]

\* C11: after be_destroy has removed the whole hierarchy of a BE named N
\* whose root had the origin D@S, snapshots are destroyed only when S = N and
\* D@S has no clone left after the teardown, and then they are exactly the
\* snapshots named S on D and below it; in that case they are all destroyed
\* unless the call reports a failure. When S differs from N, when D@S still
\* has a clone, or when the root had no origin, no snapshot is destroyed.
C11_OriginSnapshotDestroyed ==
    DestroyedHierarchy.is
    => LET N == last.attrs.orig_be_name
           o == DestroyedHierarchy.origin
           own == o # NoOrigin /\ o[2] = N /\ NumClones(datasets, o) = 0
           named == IF o = NoOrigin THEN {}
                    ELSE {x \in last.pre.snaps : x[2] = o[2] /\ IsPrefix(o[1], x[1])}
       IN  /\ snaps \subseteq last.pre.snaps
           /\ ~own => snaps = last.pre.snaps
           /\ own => \/ snaps = last.pre.snaps \ named
                     \/ snaps = last.pre.snaps /\ last.ret # 0

\* C11 happens: be2, the only clone of the snapshot be2 of be1, has been
\* destroyed, and the snapshots be2 of be1 and of its children went with it.
C11_Witness ==
    /\ DestroyedHierarchy.is
    /\ last.ret = 0
    /\ last.attrs.orig_be_name = "be2"
    /\ DestroyedHierarchy.origin = <<be_make_root_ds("rpool", "be1"), "be2">>
    /\ Cardinality({x \in last.pre.snaps : x[2] = "be2"}) = 3
    /\ {x \in snaps : x[2] = "be2"} = {}

\* The BE the last be_destroy was called for, when it existed, and the
\* snapshots of its datasets that are the origin of a dataset outside it:
\* [is, root, needed]
DestroyedDependedOn ==
    LET z == IF /\ last.op = "destroy"
                /\ last.attrs.orig_be_name # NULL
                /\ be_valid_be_name(last.attrs.orig_be_name)
             THEN be_find_zpool(MkSt(last.pre.ds, last.pre.snaps, last.pre.grub,
                                     last.pre.vfstab, TRUE),
                                last.attrs.orig_be_name)
             ELSE [found |-> FALSE, zpool |-> NULL]
        root == IF z.found THEN be_make_root_ds(z.zpool, last.attrs.orig_be_name)
                ELSE <<>>
        tree == IF z.found THEN Subtree(last.pre.ds, root) ELSE {}
    IN  [is |-> z.found, root |-> root,
         needed |-> {x \in last.pre.snaps :
                       /\ x[1] \in tree
                       /\ \E d \in DOMAIN last.pre.ds \ tree :
                            last.pre.ds[d].origin = x}]

\* C12: be_destroy of a BE B on which another BE depends, that is, a
\* dataset of B has a snapshot that is the origin of a dataset outside B,
\* returns a failure, and the root dataset of B, these snapshots and their
\* clones are still there after the call.
C12_DestroyWithDependentsFails ==
    (DestroyedDependedOn.is /\ DestroyedDependedOn.needed # {})
    => /\ last.ret # 0
       /\ DestroyedDependedOn.root \in DOMAIN datasets
       /\ DestroyedDependedOn.needed \subseteq snaps
       /\ \A x \in DestroyedDependedOn.needed :
            NumClones(datasets, x) = NumClones(last.pre.ds, x)

\* C12 happens: be1 is not mounted, be2 is a clone of a snapshot of be1, and
\* the teardown of be1 has been refused by the library.
C12_Witness ==
    /\ DestroyedDependedOn.is
    /\ DestroyedDependedOn.needed # {}
    /\ last.attrs.orig_be_name = "be1"
    /\ last.pre.ds[DestroyedDependedOn.root].mounted = NotMounted
    /\ last.err = "destroy"
    /\ last.faults = {}
    /\ \E i \in 1..Len(last.log) :
         last.log[i].call = "zfs_destroy" /\ ~last.log[i].ok

\* C13: when be_copy without a destination name returns success, the
\* caller's attributes hold the snapshot name and the new BE name; the new BE
\* name is that of the root dataset the call created (the candidate of its
\* last attempt), and the snapshot name is that of the snapshot of the
\* original's root the new root was made from.
C13_AutoCopyReturnsNames ==
    (last.op = "copy" /\ last.attrs.new_be_name = NULL /\ last.ret = 0)
    => LET snap == IF last.attrs.snap_name # NULL THEN last.attrs.snap_name
                   ELSE last.out.snap_name
           root == be_make_root_ds(last.bt.obe_zpool, last.out.new_be_name)
       IN  /\ snap # NULL
           /\ last.out.new_be_name # NULL
           /\ last.out.new_be_name = last.bt.nbe_name
           /\ root \in DOMAIN datasets \ DOMAIN last.pre.ds
           /\ <<last.bt.obe_root_ds, snap>> \in snaps
           /\ datasets[root].origin = <<last.bt.obe_root_ds, snap>>

\* The logged call e of a be_copy is a failed step of the replication of a
\* node below the root of the original: reading its mountpoint, opening its
\* snapshot, cloning or creating its copy, or sending and receiving it
NodeStepFailed(e) ==
    /\ ~e.ok
    /\ \/ /\ e.call \in {"zfs_prop_get", "pipe", "fork", "zfs_send"}
          /\ IsPrefix(last.bt.obe_root_ds, e.target)
          /\ Len(e.target) > Len(last.bt.obe_root_ds)
       \/ /\ e.call = "zfs_open"
          /\ IsPrefix(last.bt.obe_root_ds, e.target)
          /\ Len(e.target) > Len(last.bt.obe_root_ds) + 1
       \/ /\ e.call \in {"zfs_clone", "zfs_create", "zfs_receive"}
          /\ IsPrefix(last.bt.nbe_root_ds, e.target)
          /\ Len(e.target) > Len(last.bt.nbe_root_ds)

\* The last call is a be_copy in which the replication of a node below the
\* root failed
DescendantFailed ==
    /\ last.op = "copy"
    /\ last.bt.obe_root_ds # <<>>
    /\ last.bt.nbe_root_ds # <<>>
    /\ \E i \in 1..Len(last.log) : NodeStepFailed(last.log[i])

\* C14: in a be_copy of either kind, when the replication of a node below
\* the root fails, the walk over the root returns a failure and be_copy
\* returns a failure; and a walk that returns success has made a copy of
\* every dataset of the original.
C14_DescendantFailureFailsCopy ==
    last.op = "copy"
    => /\ DescendantFailed
            => /\ last.ret # 0
               /\ \A k \in 1..Len(last.rets) : last.rets[k].ret # 0
       /\ \A k \in 1..Len(last.rets) :
            last.rets[k].ret = 0
                => RelPaths(datasets, last.rets[k].root)
                      = RelPaths(last.pre.ds, last.bt.obe_root_ds)

\* The logged call e tells that the transfer of a node failed: the receive
\* into the new dataset failed, the producer was killed by a signal, or it
\* ended with a status other than 0 because zfs_send failed
TransferFailed(e) ==
    \/ e.call = "zfs_receive" /\ ~e.ok
    \/ e.call = "killed" /\ e.ok
    \/ e.call = "zfs_send" /\ ~e.ok

\* C15: in a be_copy into another pool, when for some node the receive
\* fails or the producer ends with a status other than 0 or is killed,
\* be_send_fs_callback returns a failure for that node: no child of the node
\* and no later node is visited, the walk over the root does not return
\* success, and be_copy does not return success.
C15_TransferFailureFailsNode ==
    (last.op = "copy" /\ last.bt.obe_zpool # last.bt.nbe_zpool)
    => \A i \in 1..Len(last.log) :
          TransferFailed(last.log[i])
          => /\ \A j \in (i + 1)..Len(last.log) :
                    last.log[j].call \notin {"iter_open", "zfs_create", "fork"}
             /\ \A k \in 1..Len(last.rets) : last.rets[k].ret # 0
             /\ last.ret # 0

\* The failed zfs_clone e of the last call found its destination taken
CloneFoundExisting(e) ==
    \/ e.target \in DOMAIN last.pre.ds
    \/ \E j \in 1..Len(last.log) :
         last.log[j].call = "external_create" /\ last.log[j].target = e.target

\* C16: in a be_copy within one pool, when zfs_clone fails for a node of
\* the walk (the root or a child) because the destination exists, the walk
\* over the root returns BE_ERR_EXISTS to be_copy; when it fails for another
\* reason, the walk returns a failure other than BE_ERR_EXISTS.
C16_CloneFailureCode ==
    (last.op = "copy" /\ last.bt.obe_zpool = last.bt.nbe_zpool)
    => \A k \in 1..Len(last.rets), i \in 1..Len(last.log) :
          (/\ last.log[i].call = "zfs_clone"
           /\ ~last.log[i].ok
           /\ IsPrefix(last.rets[k].root, last.log[i].target))
          => IF CloneFoundExisting(last.log[i])
             THEN last.rets[k].ret = BE_ERR_EXISTS
             ELSE last.rets[k].ret \notin {0, BE_ERR_EXISTS}

\* C17: one be_copy calls the walk over the original's root at most
\* BE_AUTO_NAME_MAX_TRY times; a second or later call is made only when the
\* name of the new BE is generated and the call before it returned
\* BE_ERR_EXISTS; with a given name, into another pool, or after a call
\* that returned another failure, be_copy makes no further call and fails.
C17_ReplicatorAttempts ==
    last.op = "copy"
    => /\ Len(last.rets) <= BE_AUTO_NAME_MAX_TRY
       /\ \A k \in 2..Len(last.rets) :
            /\ last.attrs.new_be_name = NULL
            /\ last.bt.autoname
            /\ last.rets[k - 1].ret = BE_ERR_EXISTS
            /\ last.rets[k].root # last.rets[k - 1].root
       /\ (last.attrs.new_be_name # NULL \/ last.bt.obe_zpool # last.bt.nbe_zpool)
            => Len(last.rets) <= 1
       /\ \A k \in 1..Len(last.rets) :
            /\ last.rets[k].ret \notin {0, BE_ERR_EXISTS}
                 => k = Len(last.rets) /\ last.ret # 0
            /\ (last.rets[k].ret = BE_ERR_EXISTS /\ k = Len(last.rets))
                 => last.ret # 0

\* C17 happens: a be_copy without a destination name has called the walk
\* BE_AUTO_NAME_MAX_TRY times, each call has returned BE_ERR_EXISTS, and
\* be_copy has given up.
C17_Witness ==
    /\ last.op = "copy"
    /\ last.attrs.new_be_name = NULL
    /\ Len(last.rets) = BE_AUTO_NAME_MAX_TRY
    /\ \A k \in 1..Len(last.rets) : last.rets[k].ret = BE_ERR_EXISTS
    /\ last.err = "no_unique_name"
    /\ last.ret = 1

\* The position of the logged waitpid that returned the producer started at
\* position i of the log, 0 when there is none
Reaped(i) ==
    LET js == {j \in (i + 1)..Len(last.log) :
                 /\ last.log[j].call = "waitpid"
                 /\ last.log[j].ok
                 /\ last.log[j].target = last.log[i].target}
    IN  IF js = {} THEN 0 ELSE CHOOSE j \in js : \A x \in js : j <= x

\* C18: in a be_copy into another pool, one producer is started for each
\* node whose dataset is received and none twice for a node; between the
\* fork of a producer and the waitpid that returns it the parent starts no
\* other producer, creates no dataset and visits no other node; and when no
\* waitpid returns the producer, the parent does none of these ever after.
C18_OneProducerAtATime ==
    (last.op = "copy" /\ last.bt.obe_zpool # last.bt.nbe_zpool)
    => /\ \A i \in 1..Len(last.log) :
            (last.log[i].call = "fork" /\ last.log[i].ok)
            => /\ \A j \in 1..Len(last.log) :
                    (last.log[j].call = "fork" /\ last.log[j].target = last.log[i].target)
                        => j = i
               /\ \A j \in (i + 1)..(IF Reaped(i) = 0 THEN Len(last.log) ELSE Reaped(i)) :
                    last.log[j].call \notin {"fork", "zfs_create", "iter_open"}
       /\ \A i \in 1..Len(last.log) :
            last.log[i].call = "zfs_receive"
            => Cardinality({j \in 1..(i - 1) :
                              /\ last.log[j].call = "fork"
                              /\ last.log[j].ok
                              /\ last.bt.nbe_root_ds
                                   \o RelName(last.log[j].target, last.bt.obe_root_ds)
                                    = last.log[i].target}) = 1

\* C18 happens: a BE of three datasets has been copied to another pool by
\* three producers, each returned by waitpid before the next dataset was made.
C18_Witness ==
    /\ last.op = "copy"
    /\ last.bt.obe_zpool # last.bt.nbe_zpool
    /\ last.ret = 0
    /\ Cardinality({i \in 1..Len(last.log) : last.log[i].call = "fork"}) = 3
    /\ \A i \in 1..Len(last.log) : last.log[i].call = "fork" => Reaped(i) # 0
    /\ Cardinality(Subtree(datasets, last.bt.nbe_root_ds)) = 3

\* C19: in a be_copy into another pool, once a producer has been started
\* for a node, be_send_fs_callback returns for that node whatever waitpid
\* gives, an error included: the call of be_copy comes back to its caller.
C19_SendCallbackReturns ==
    (/\ last.op = "copy"
     /\ last.bt.obe_zpool # last.bt.nbe_zpool
     /\ \E i \in 1..Len(last.log) : last.log[i].call = "fork" /\ last.log[i].ok)
    => /\ last.ret # NORETURN
       /\ \A k \in 1..Len(last.rets) : last.rets[k].ret # NORETURN

\* The positions of the log at which the last be_copy made a dataset of a
\* new BE by zfs_clone or zfs_create
Replicated ==
    {i \in 1..Len(last.log) :
        /\ last.log[i].call \in {"zfs_clone", "zfs_create"}
        /\ last.log[i].ok
        /\ Len(last.log[i].target) >= 3}

\* The dataset of the original of which the dataset d of a new BE is the copy
SourceOf(d) == last.bt.obe_root_ds \o SubSeq(d, 4, Len(d))

\* C20: the properties with which a dataset is made by either walk depend
\* on its own original only, whatever was made before it with the shared
\* list: the root gets the mountpoint legacy, another dataset gets the
\* mountpoint of its original when that is set locally and no mountpoint at
\* all when it is inherited, and every dataset gets canmount noauto.
C20_PropsPerNode ==
    last.op = "copy"
    => \A i \in Replicated :
          LET d == last.log[i].target
              props == datasets[d].props
              src == last.pre.ds[SourceOf(d)].props
          IN  /\ "canmount" \in DOMAIN props
              /\ props["canmount"] = "noauto"
              /\ DOMAIN props \subseteq {"mountpoint", "canmount", BE_POLICY_PROPERTY}
              /\ Len(d) = 3
                   => "mountpoint" \in DOMAIN props
                      /\ props["mountpoint"] = ZFS_MOUNTPOINT_LEGACY
              /\ (Len(d) > 3 /\ "mountpoint" \in DOMAIN src)
                   => "mountpoint" \in DOMAIN props
                      /\ props["mountpoint"] = src["mountpoint"]
              /\ (Len(d) > 3 /\ "mountpoint" \notin DOMAIN src)
                   => "mountpoint" \notin DOMAIN props

\* C20 happens: a be_copy has made, after the root and a dataset with a
\* mountpoint of its own, a dataset whose original inherits its mountpoint,
\* and that dataset has no mountpoint property.
C20_Witness ==
    /\ last.op = "copy"
    /\ last.ret = 0
    /\ \E i, j \in Replicated :
         /\ i < j
         /\ Len(last.log[i].target) > 3
         /\ "mountpoint" \in DOMAIN datasets[last.log[i].target].props
         /\ "mountpoint" \notin DOMAIN last.pre.ds[SourceOf(last.log[j].target)].props
         /\ "mountpoint" \notin DOMAIN datasets[last.log[j].target].props

\* The snapshot name a be_copy has settled on: the one the caller gave, the
\* generated one that was returned to the caller, or the name of the new BE
ResolvedSnap ==
    IF last.attrs.snap_name # NULL THEN last.attrs.snap_name
    ELSE IF last.attrs.new_be_name = NULL THEN last.out.snap_name
    ELSE last.attrs.new_be_name

\* C21: after a successful be_copy within one pool with the snapshot name S,
\* every dataset of the new BE, at the relative path p, is a clone of the
\* snapshot S of the dataset of the original at the same path p, and that
\* snapshot exists.
C21_CloneOrigins ==
    (last.op = "copy" /\ last.ret = 0 /\ last.bt.obe_zpool = last.bt.nbe_zpool)
    => /\ ResolvedSnap # NULL
       /\ ResolvedSnap = last.bt.obe_snap_name
       /\ last.bt.nbe_root_ds \in DOMAIN datasets
       /\ \A d \in Subtree(datasets, last.bt.nbe_root_ds) :
            /\ datasets[d].origin = <<SourceOf(d), ResolvedSnap>>
            /\ SourceOf(d) \in DOMAIN last.pre.ds
            /\ <<SourceOf(d), ResolvedSnap>> \in snaps

\* C21 happens: a BE of three datasets has been cloned in its pool, and the
\* new BE has three datasets, each with an origin.
C21_Witness ==
    /\ last.op = "copy"
    /\ last.ret = 0
    /\ last.bt.obe_zpool = last.bt.nbe_zpool
    /\ Cardinality(Subtree(last.pre.ds, last.bt.obe_root_ds)) = 3
    /\ Cardinality(Subtree(datasets, last.bt.nbe_root_ds)) = 3
    /\ \A d \in Subtree(datasets, last.bt.nbe_root_ds) : datasets[d].origin # NoOrigin

\* The datasets of the original the walks of the last be_copy were called
\* for: the root, once be_copy has called a walk, and every child handed to
\* the callback by zfs_iter_filesystems
Processed ==
    (IF last.op = "copy" /\ Len(last.rets) > 0 THEN {last.bt.obe_root_ds} ELSE {})
    \cup {last.log[i].target : i \in
            {j \in 1..Len(last.log) :
                /\ last.op = "copy"
                /\ last.log[j].call = "iter_open"
                /\ Len(last.log[j].target) > 3
                /\ last.bt.obe_root_ds # <<>>
                /\ IsPrefix(last.bt.obe_root_ds, last.log[j].target)}}

\* C22 as stated: whenever a walk of be_copy is called for a dataset n of the
\* original, the snapshot of n with the settled name exists.
C22_SnapshotExistsForEveryNode ==
    last.op = "copy"
    => \A n \in Processed : <<n, last.bt.obe_snap_name>> \in snaps

\* C22 as amended: the snapshot of the root exists whenever a walk is
\* called; when be_copy made the snapshot itself, every dataset of the
\* original has it; when the caller named it, a dataset below the root may
\* lack it, and then the callback fails for that dataset no later than at
\* zfs_open of the snapshot (at the read of the mountpoint before it, or at
\* zfs_open): it makes no copy of it and visits none of its children.
C22_SnapshotVerifiedForRoot ==
    last.op = "copy"
    => /\ Len(last.rets) > 0
            => <<last.bt.obe_root_ds, last.bt.obe_snap_name>> \in snaps
       /\ (Len(last.rets) > 0 /\ last.attrs.snap_name = NULL)
            => \A n \in Subtree(last.pre.ds, last.bt.obe_root_ds) :
                  <<n, last.bt.obe_snap_name>> \in snaps
       /\ \A n \in Processed :
            <<n, last.bt.obe_snap_name>> \notin snaps
            => /\ last.attrs.snap_name # NULL
               /\ n # last.bt.obe_root_ds
               /\ \E i \in 1..Len(last.log) :
                    /\ \/ /\ last.log[i].call = "zfs_open"
                          /\ last.log[i].target
                               = SnapName(<<n, last.bt.obe_snap_name>>)
                       \/ /\ last.log[i].call = "zfs_prop_get"
                          /\ last.log[i].target = n
                    /\ ~last.log[i].ok
               /\ \A i \in 1..Len(last.log) :
                    /\ last.log[i].call \in {"zfs_clone", "zfs_create"}
                         => last.log[i].target
                              # last.bt.nbe_root_ds \o RelName(n, last.bt.obe_root_ds)
                    /\ last.log[i].call = "iter_open"
                         => ~(IsPrefix(n, last.log[i].target) /\ last.log[i].target # n)

\* C22 happens: be_copy was given the name of a snapshot that the root of
\* the original has and a child has not, and the walk has come to that child.
C22_Witness ==
    /\ last.op = "copy"
    /\ last.attrs.snap_name # NULL
    /\ Len(last.rets) > 0
    /\ <<last.bt.obe_root_ds, last.bt.obe_snap_name>> \in snaps
    /\ \E n \in Processed : <<n, last.bt.obe_snap_name>> \notin snaps

\* The last call is a be_copy that has to be rejected before anything is
\* copied: the original cannot be found, a name is not valid, the given new
\* name is taken in some pool, a pool or a snapshot is given without a new
\* name, or the given snapshot is not on the root of the original
CopyRejected ==
    /\ last.op = "copy"
    /\ LET a == last.attrs
       IN  \/ a.orig_be_name # NULL /\ ~be_valid_be_name(a.orig_be_name)
           \/ /\ a.orig_be_name # NULL
              /\ be_valid_be_name(a.orig_be_name)
              /\ PoolsOf(last.pre.ds, a.orig_be_name) = {}
           \/ /\ a.orig_be_name = NULL
              /\ \A d \in BERoots(last.pre.ds) : last.pre.ds[d].mounted # "/"
           \/ a.new_be_name # NULL /\ ~be_valid_be_name(a.new_be_name)
           \/ /\ a.new_be_name # NULL
              /\ be_valid_be_name(a.new_be_name)
              /\ PoolsOf(last.pre.ds, a.new_be_name) # {}
           \/ a.new_be_name = NULL /\ (a.new_be_pool # NULL \/ a.snap_name # NULL)
           \/ /\ a.snap_name # NULL
              /\ last.bt.obe_root_ds # <<>>
              /\ <<last.bt.obe_root_ds, a.snap_name>> \notin last.pre.snaps

\* C23: a be_copy that is rejected before anything is copied returns a
\* failure and has made no snapshot and no dataset: the datasets, the
\* snapshots, vfstab and the boot menu are as they were, and no walk and no
\* zfs_snapshot, zfs_create or zfs_clone has been called.
C23_RejectedCopyCreatesNothing ==
    CopyRejected
    => /\ last.ret = 1
       /\ datasets = last.pre.ds
       /\ snaps = last.pre.snaps
       /\ grub = last.pre.grub
       /\ vfstab = last.pre.vfstab
       /\ last.rets = <<>>
       /\ \A i \in 1..Len(last.log) :
            last.log[i].call \notin {"zfs_snapshot", "be_create_snapshot",
                                     "zfs_create", "zfs_clone", "external_create"}

\* C23 happens: a be_copy within rpool has been rejected because the given
\* new name is that of a BE in another pool.
C23_Witness ==
    /\ CopyRejected
    /\ last.err = "exists"
    /\ last.attrs.orig_be_name # NULL
    /\ last.attrs.new_be_pool = NULL
    /\ PoolsOf(last.pre.ds, last.attrs.orig_be_name) = {"rpool"}
    /\ PoolsOf(last.pre.ds, last.attrs.new_be_name) = {"tank"}

\* The places of the log of the last call where one of the calls cs was made
LogAt(cs) == {i \in 1..Len(last.log) : last.log[i].call \in cs}

\* The calls of the stages of be_destroy: the teardown of the hierarchy and
\* the evaluation and cleanup of the origin snapshot
TeardownCalls == {"zfs_unmount", "zfs_destroy"}

OriginCalls == {"zfs_prop_get", "zfs_destroy_snaps"}

\* C24: in be_destroy of a BE with root R, a dataset is unmounted or
\* destroyed only once every dataset below it has been destroyed; the
\* mounted check and then the read of the origin of R come before the first
\* unmount or destroy; the origin snapshot or its dataset is opened, its clone
\* count is read and its snapshots are destroyed only after R itself has been
\* destroyed, the count before the snapshots; the boot-menu removal comes
\* after all of these; and the mounted check, the origin read, the count, the
\* snapshot cleanup, the boot-menu removal and the unmount and the destroy of
\* any one dataset each happen at most once.
C24_DestroyStageOrder ==
    (last.op = "destroy" /\ DestroyedDependedOn.is)
    => LET L == last.log
           R == DestroyedDependedOn.root
           after == LogAt(OriginCalls)
                    \cup {i \in LogAt({"zfs_open"}) : L[i].target # R}
       IN  /\ \A i \in LogAt(TeardownCalls) :
                /\ L[i].target \in Subtree(last.pre.ds, R)
                /\ \A d \in Subtree(last.pre.ds, L[i].target) \ {L[i].target} :
                     \E j \in 1..(i - 1) :
                        L[j] = [call |-> "zfs_destroy", target |-> d, ok |-> TRUE]
                /\ \E j \in LogAt({"zfs_prop_get_origin"}) :
                     /\ j < i
                     /\ L[j].target = R
                     /\ \E k \in LogAt({"zfs_is_mounted"}) : k < j
           /\ \A i \in after :
                \E j \in 1..(i - 1) :
                   L[j] = [call |-> "zfs_destroy", target |-> R, ok |-> TRUE]
           /\ \A i \in LogAt({"zfs_destroy_snaps"}) :
                \E j \in LogAt({"zfs_prop_get"}) : j < i /\ L[j].ok
           /\ \A i \in LogAt({"be_remove_grub"}) :
                \A j \in LogAt(TeardownCalls) \cup after : j < i
           /\ \A c \in {"zfs_is_mounted", "zfs_prop_get_origin", "zfs_prop_get",
                        "zfs_destroy_snaps", "be_remove_grub"} :
                Cardinality(LogAt({c})) <= 1
           /\ \A i, j \in LogAt(TeardownCalls) :
                (L[i].call = L[j].call /\ L[i].target = L[j].target) => i = j

\* C24 happens: be_destroy has gone through all its stages for the clone be2
\* of three datasets, whose origin snapshot it then destroyed.
C24_Witness ==
    /\ last.op = "destroy"
    /\ DestroyedDependedOn.is
    /\ last.ret = 0
    /\ Cardinality({i \in LogAt({"zfs_destroy"}) : last.log[i].ok}) = 3
    /\ \E i \in LogAt({"zfs_destroy_snaps"}) : last.log[i].ok
    /\ \E i \in LogAt({"be_remove_grub"}) : last.log[i].ok

\* The places of the log of the last be_destroy where the forced unmount or
\* the destroy of a dataset failed
TeardownFailures == {i \in LogAt(TeardownCalls) : ~last.log[i].ok}

\* C25: when the forced unmount or the destroy of a dataset fails in
\* be_destroy, nothing is unmounted or destroyed after it, the datasets
\* destroyed before it are gone and all the others are still there, the
\* origin snapshot is neither opened, counted nor destroyed, no snapshot of
\* a remaining dataset is lost, and be_destroy returns a failure.
C25_TeardownFailureStops ==
    (last.op = "destroy" /\ TeardownFailures # {})
    => LET L == last.log
           gone == {L[i].target : i \in {j \in LogAt({"zfs_destroy"}) : L[j].ok}}
       IN  /\ \A i \in TeardownFailures : \A j \in LogAt(TeardownCalls) : j <= i
           /\ DOMAIN datasets = DOMAIN last.pre.ds \ gone
           /\ LogAt(OriginCalls) = {}
           /\ \A i \in LogAt({"zfs_open"}) : L[i].target = DestroyedDependedOn.root
           /\ snaps = {x \in last.pre.snaps : x[1] \notin gone}
           /\ last.ret # 0

\* C25 happens: be_destroy had destroyed a child of the BE when the unmount
\* or the destroy of a later dataset failed, and the rest of the BE is left.
C25_Witness ==
    /\ last.op = "destroy"
    /\ TeardownFailures # {}
    /\ \E i \in LogAt({"zfs_destroy"}) :
         /\ last.log[i].ok
         /\ \A j \in TeardownFailures : i < j
    /\ DestroyedDependedOn.root \in DOMAIN datasets
    /\ last.ret = 1

\* The places of the log of the last be_destroy where a step on the origin
\* snapshot failed: opening it or its dataset, reading its clone count,
\* destroying the snapshots
OriginFailures ==
    {i \in LogAt(OriginCalls) \cup
           {j \in LogAt({"zfs_open"}) :
              last.log[j].target # DestroyedDependedOn.root} :
       ~last.log[i].ok}

\* C26: a be_destroy that has destroyed the root dataset of the BE named N,
\* and so its whole hierarchy, calls be_remove_grub exactly once, for N,
\* whatever the origin step did; and when a step on the origin snapshot
\* failed, be_destroy returns a failure.
C26_GrubRemovedOnce ==
    (last.op = "destroy" /\ DestroyedHierarchy.is)
    => /\ Cardinality(LogAt({"be_remove_grub"})) = 1
       /\ \A i \in LogAt({"be_remove_grub"}) :
            last.log[i].target = <<last.attrs.orig_be_name>>
       /\ OriginFailures # {} => last.ret # 0

\* C26 happens: the hierarchy of the BE is gone, the cleanup of its origin
\* snapshot failed, and the boot menu entry was removed all the same.
C26_Witness ==
    /\ last.op = "destroy"
    /\ DestroyedHierarchy.is
    /\ \E i \in OriginFailures : last.log[i].call = "zfs_destroy_snaps"
    /\ \E i \in LogAt({"be_remove_grub"}) : last.log[i].ok
    /\ last.attrs.orig_be_name \notin grub
    /\ last.ret = 1

\* C27: a be_init that is rejected because the name already exists, in the
\* destination pool or in another one, has created no dataset, not even the
\* container dataset of the destination pool.
C27_RejectedInitCreatesNothing ==
    (last.op = "init" /\ last.err = "exists")
    => DOMAIN datasets = DOMAIN last.pre.ds

\* C28: be_init called without the attributes for the non-shared file
\* systems, with a valid name that no pool has yet and an existing pool, and
\* with no library call failing, succeeds and creates the root dataset of the
\* BE, and the container dataset if the pool had none, and nothing else.
C28_InitWithoutFsList ==
    (/\ last.op = "init"
     /\ ~last.attrs.has_fs
     /\ last.attrs.new_be_name # NULL
     /\ be_valid_be_name(last.attrs.new_be_name)
     /\ PoolsOf(last.pre.ds, last.attrs.new_be_name) = {}
     /\ last.attrs.new_be_pool \in Pools
     /\ last.attrs.shared_fs_num = 0
     /\ last.faults = {})
    => /\ last.ret = 0
       /\ DOMAIN datasets =
            DOMAIN last.pre.ds
            \cup {be_make_container_ds(last.attrs.new_be_pool),
                  be_make_root_ds(last.attrs.new_be_pool, last.attrs.new_be_name)}

\* C29: when be_init, be_copy or be_destroy returns, every dataset and
\* snapshot handle opened during the call has been closed, once: the number
\* of handles opened and not closed is zero.
C29_NoHandleLeftOpen ==
    (last.op \in {"init", "copy", "destroy"} /\ last.ret # NORETURN)
    => last.handles = 0

\* The attempts of the last be_copy whose replicator returned BE_ERR_EXISTS,
\* as places in the list of the values returned
CollidedAttempts ==
    {k \in 1..Len(last.rets) : last.rets[k].ret = BE_ERR_EXISTS}

\* C30: an attempt of be_copy that ended with BE_ERR_EXISTS for the
\* candidate root R has created no dataset at R or below it, and every
\* dataset found at R or below it after the call was there before the call
\* or was put there by another process; so neither a copy that succeeds
\* after collisions nor one that gives up leaves datasets of its own under
\* an abandoned candidate name.
C30_CollidingAttemptCreatesNothing ==
    last.op = "copy"
    => \A k \in CollidedAttempts :
         LET R == last.rets[k].root IN
         /\ \A i \in LogAt({"zfs_clone", "zfs_create"}) :
              last.log[i].ok => ~IsPrefix(R, last.log[i].target)
         /\ \A d \in Subtree(datasets, R) :
              \/ d \in DOMAIN last.pre.ds
              \/ \E i \in LogAt({"external_create"}) : last.log[i].target = d
         /\ \A d \in Subtree(datasets, R) : datasets[d].origin = NoOrigin

\* C30 happens: a be_copy with a generated name collided with another
\* process on its first candidate, went on to the next one and succeeded.
C30_Witness ==
    /\ last.op = "copy"
    /\ last.attrs.new_be_name = NULL
    /\ CollidedAttempts # {}
    /\ last.ret = 0
    /\ \A k \in CollidedAttempts : last.rets[k].root # last.bt.nbe_root_ds
    /\ last.bt.nbe_root_ds \in DOMAIN datasets
    /\ last.bt.nbe_root_ds \notin DOMAIN last.pre.ds

\* The names of the snapshots that the datasets of the original of the last
\* be_copy have now and had not before the call
NewSnapNames ==
    {x[2] : x \in {y \in snaps \ last.pre.snaps :
                     IsPrefix(last.bt.obe_root_ds, y[1])}}

\* C31: a be_copy with a generated name that has come to its first
\* replication attempt has taken one snapshot, once, before that attempt and
\* before any clone; whatever the number of retries and whether the copy
\* succeeds, fails or exhausts its attempts, the datasets of the original
\* have gained exactly that one snapshot name, every dataset of the original
\* has the snapshot, and every clone made by the call has its origin in it.
C31_OneSnapshotForAllAttempts ==
    (last.op = "copy" /\ last.attrs.new_be_name = NULL /\ Len(last.rets) > 0)
    => LET L == last.log
           S == last.bt.obe_snap_name
       IN  /\ Cardinality(LogAt({"zfs_snapshot"})) = 1
           /\ \A i \in LogAt({"zfs_snapshot"}) :
                /\ L[i].ok
                /\ L[i].target = SnapName(<<last.bt.obe_root_ds, S>>)
                /\ \A j \in LogAt({"zfs_clone", "zfs_open"}) :
                     (L[j].call = "zfs_clone"
                        \/ IsPrefix(last.bt.obe_root_ds, L[j].target)) => i < j
           /\ NewSnapNames = {S}
           /\ \A n \in Subtree(last.pre.ds, last.bt.obe_root_ds) :
                /\ <<n, S>> \in snaps
                /\ <<n, S>> \notin last.pre.snaps
           /\ \A d \in DOMAIN datasets \ DOMAIN last.pre.ds :
                datasets[d].origin # NoOrigin
                => /\ datasets[d].origin[2] = S
                   /\ datasets[d].origin \in snaps

\* C31 happens: a be_copy with a generated name collided on every candidate
\* and gave up, and the one snapshot it took is still on the original.
C31_Witness ==
    /\ last.op = "copy"
    /\ last.attrs.new_be_name = NULL
    /\ last.err = "no_unique_name"
    /\ Cardinality(CollidedAttempts) >= 2
    /\ NewSnapNames = {last.bt.obe_snap_name}
    /\ <<last.bt.obe_root_ds, last.bt.obe_snap_name>> \in snaps

\* C32: when be_copy returns a failure, it has added neither a snapshot name
\* nor a new BE name to the attributes of the caller.
C32_NoOutputOnFailure ==
    (last.op = "copy" /\ last.ret \notin {0, NORETURN})
    => /\ last.out.snap_name = NULL
       /\ last.out.new_be_name = NULL

\* The errors of be_destroy that come before the hierarchy of the BE is gone
EarlyDestroyErrors ==
    {"zfs_init", "lookup_name", "invalid_name", "no_zpool", "open_root",
     "mounted", "get_snap", "destroy"}

\* C33: be_destroy calls be_remove_grub only after it has destroyed the root
\* dataset of the BE: no boot-menu entry is lost for a name that still has a
\* root dataset, and a be_destroy that fails at the name, at the pool, at the
\* open of the root, at the mounted check, at the origin read or in the
\* teardown makes no call of be_remove_grub and leaves the boot menu as it was.
C33_GrubKeptWhileRootExists ==
    last.op = "destroy"
    => /\ \A i \in LogAt({"be_remove_grub"}) :
            /\ DestroyedDependedOn.is
            /\ DestroyedDependedOn.root \notin DOMAIN datasets
            /\ \E j \in 1..(i - 1) :
                 last.log[j] = [call |-> "zfs_destroy",
                                target |-> DestroyedDependedOn.root, ok |-> TRUE]
       /\ \A n \in last.pre.grub \ grub : PoolsOf(datasets, n) = {}
       /\ last.err \in EarlyDestroyErrors
            => /\ LogAt({"be_remove_grub"}) = {}
               /\ grub = last.pre.grub

\* C33 happens: be_destroy of a BE that has a boot-menu entry failed in the
\* teardown after it had destroyed a child; the root and the entry are there.
C33_Witness ==
    /\ last.op = "destroy"
    /\ last.err = "destroy"
    /\ \E i \in LogAt({"zfs_destroy"}) : last.log[i].ok
    /\ DestroyedDependedOn.is
    /\ DestroyedDependedOn.root \in DOMAIN datasets
    /\ last.attrs.orig_be_name \in grub

\* C34: when be_init, be_copy or be_destroy returns after be_zfs_init has
\* succeeded, be_zfs_fini has been called after it and the library-wide
\* handle is not initialised any more.
C34_LibraryHandleFinalised ==
    (/\ last.op \in {"init", "copy", "destroy"}
     /\ last.ret # NORETURN
     /\ \E i \in LogAt({"be_zfs_init"}) : last.log[i].ok)
    => /\ ~g_zfs
       /\ \E i \in LogAt({"be_zfs_init"}) :
            \E j \in LogAt({"be_zfs_fini"}) : i < j

====
